---- MODULE Spec2Model ----
(***************************************************************************)
(* Entelech sales process automation: the SalesProcessAutomationEngine     *)
(* (src/src/sales_automation_engine.py) and the dashboard routes that      *)
(* drive it (src/dashboard/sales_dashboard.py), as a state machine over    *)
(* the SQLite database the engine is connected to.                         *)
(*                                                                         *)
(* Money is held in cents.  Time is held in whole days.  A database row is *)
(* a record; a table is the sequence of its rows in rowid order, so the    *)
(* id of a row is its index.  Rows written on the engine's connection and  *)
(* not yet committed carry durable = FALSE: the engine's own queries see   *)
(* them, the dashboard's separate connections do not.                      *)
(***************************************************************************)
EXTENDS Integers, Sequences, FiniteSets, TLC

(***************************************************************************)
(* Bounds of the model.                                                    *)
(***************************************************************************)
MaxCalls == 1
MaxSows == 1
MaxConfigs == 2
MaxKickoffs == 2
MaxPayments == 1
MaxNow == 40
TickDays == 31

(***************************************************************************)
(* Enumerations (lines 21-42).                                             *)
(***************************************************************************)
QualificationStatus == {"qualified", "disqualified", "nurture", "pending_review"}
SOWStatus == {"draft", "review", "sent", "approved", "rejected", "expired"}
ContractStatus == {"draft", "review", "sent_for_signature", "partially_signed",
                   "fully_executed", "expired", "cancelled"}

ServiceCategories == <<"automation_development", "process_optimization",
                       "integration_setup", "ongoing_management", "training">>

(* str.lower() over the industry names that occur in the model. *)
lower(s) ==
    CASE s = "Technology" -> "technology"
      [] s = "Finance" -> "finance"
      [] s = "Healthcare" -> "healthcare"
      [] s = "Government" -> "government"
      [] s = "Retail" -> "retail"
      [] OTHER -> s

Min(a, b) == IF a < b THEN a ELSE b
Max(a, b) == IF a > b THEN a ELSE b

(***************************************************************************)
(* Qualification scoring (lines 211-308).                                  *)
(***************************************************************************)
(* pain_score with the weekly-hours thresholds taken as inclusive. *)
pain_score_inclusive_hours(call_data) ==
    LET hours == IF call_data.time_waste_hours_weekly >= 20 THEN 4
                 ELSE IF call_data.time_waste_hours_weekly >= 10 THEN 2
                 ELSE IF call_data.time_waste_hours_weekly >= 5 THEN 1 ELSE 0
        cost == IF call_data.estimated_cost_inefficiency > 100000 THEN 4
                ELSE IF call_data.estimated_cost_inefficiency > 50000 THEN 3
                ELSE IF call_data.estimated_cost_inefficiency > 25000 THEN 2
                ELSE IF call_data.estimated_cost_inefficiency > 10000 THEN 1 ELSE 0
        team == IF call_data.team_size_affected > 10 THEN 2
                ELSE IF call_data.team_size_affected > 5 THEN 1 ELSE 0
    IN  Min(hours + cost + team, 10)

pain_score(call_data) ==
    LET hours == IF call_data.time_waste_hours_weekly > 20 THEN 4
                 ELSE IF call_data.time_waste_hours_weekly > 10 THEN 2
                 ELSE IF call_data.time_waste_hours_weekly > 5 THEN 1 ELSE 0
        cost == IF call_data.estimated_cost_inefficiency > 100000 THEN 4
                ELSE IF call_data.estimated_cost_inefficiency > 50000 THEN 3
                ELSE IF call_data.estimated_cost_inefficiency > 25000 THEN 2
                ELSE IF call_data.estimated_cost_inefficiency > 10000 THEN 1 ELSE 0
        team == IF call_data.team_size_affected > 10 THEN 2
                ELSE IF call_data.team_size_affected > 5 THEN 1 ELSE 0
    IN  Min(hours + cost + team, 10)

budget_mapping(r) ==
    CASE r = "under_25k" -> 2
      [] r = "25k_50k" -> 4
      [] r = "50k_100k" -> 6
      [] r = "100k_250k" -> 8
      [] r = "250k_plus" -> 10
      [] r = "not_disclosed" -> 3
      [] OTHER -> 3

budget_score(call_data) ==
    Min(budget_mapping(call_data.budget_range)
        + (IF call_data.decision_maker_name THEN 2 ELSE 0), 10)

urgency_mapping(u) ==
    CASE u = "immediate" -> 10
      [] u = "1_month" -> 8
      [] u = "3_months" -> 6
      [] u = "6_months" -> 4
      [] u = "12_months" -> 2
      [] OTHER -> 3

timeline_score(call_data) == urgency_mapping(call_data.timeline_urgency)

size_scoring(s) ==
    CASE s = "11-50" -> 2
      [] s = "51-200" -> 3
      [] s = "201-500" -> 2
      [] s = "501-1000" -> 1
      [] s = "1000+" -> 1
      [] s = "1-10" -> 1
      [] OTHER -> 1

high_fit_industries ==
    {"technology", "professional services", "healthcare", "finance", "real estate"}

technical_score(call_data) ==
    Min(5 + size_scoring(call_data.company_size)
        + (IF lower(call_data.industry) \in high_fit_industries THEN 2 ELSE 0), 10)

(* Line 289 evaluates (p*0.3 + b*0.3 + t*0.2 + x*0.2) * 10 in IEEE-754      *)
(* binary64 and truncates with int().  The exact value is the integer      *)
(* 3p + 3b + 2t + 2x; for the sub-score tuples below (encoded              *)
(* ((p*11 + b)*11 + t)*11 + x) the binary64 result falls just under that   *)
(* integer and int() yields one less.                                      *)
FloatTruncationLoss == {
    233, 235, 287, 364, 365, 374, 375, 379, 384, 385, 386, 387, 389, 394, 442, 444,
    496, 574, 651, 653, 727, 728, 730, 737, 738, 740, 748, 750, 753, 758, 770, 772,
    773, 774, 778, 779, 783, 827, 828, 829, 833, 834, 960, 961, 965, 966, 992, 1089,
    1091, 1099, 1111, 1113, 1115, 1119, 1120, 1149, 1154, 1169, 1170, 1174, 1175, 1199, 1200, 1202,
    1203, 1204, 1205, 1207, 1208, 1301, 1302, 1306, 1307, 1443, 1445, 1497, 1574, 1575, 1584, 1585,
    1589, 1594, 1595, 1596, 1597, 1599, 1604, 1652, 1654, 1706, 1784, 1861, 1863, 1993, 2057, 2059,
    2060, 2061, 2062, 2066, 2070, 2072, 2079, 2080, 2081, 2082, 2084, 2086, 2090, 2092, 2100, 2101,
    2102, 2103, 2104, 2105, 2106, 2110, 2111, 2112, 2114, 2116, 2120, 2121, 2150, 2155, 2156, 2160,
    2161, 2165, 2166, 2170, 2171, 2175, 2176, 2202, 2299, 2301, 2309, 2321, 2323, 2325, 2329, 2330,
    2359, 2364, 2379, 2380, 2384, 2385, 2409, 2410, 2412, 2413, 2414, 2415, 2417, 2418, 2420, 2421,
    2422, 2425, 2426, 2427, 2431, 2436, 2441, 2442, 2444, 2445, 2446, 2447, 2451, 2452, 2455, 2456,
    2457, 2461, 2462, 2475, 2476, 2477, 2481, 2482, 2486, 2487, 2489, 2490, 2491, 2492, 2494, 2495,
    2496, 2497, 2501, 2502, 2506, 2507, 2511, 2512, 2516, 2517, 2568, 2573, 2588, 2589, 2593, 2594,
    2643, 2644, 2707, 2784, 2785, 2794, 2795, 2799, 2804, 2805, 2806, 2807, 2809, 2814, 2862, 2864,
    2916, 2994, 3071, 3073, 3147, 3148, 3150, 3157, 3158, 3160, 3168, 3170, 3173, 3178, 3190, 3192,
    3193, 3194, 3198, 3199, 3203, 3247, 3248, 3249, 3253, 3254, 3380, 3381, 3385, 3386, 3412, 3721,
    3722, 3726, 3727, 3778, 3783, 3798, 3799, 3803, 3804, 3853, 3854, 3930, 3931, 3935, 3936, 3985,
    3986, 3994, 3995, 4004, 4005, 4009, 4014, 4015, 4016, 4017, 4019, 4024, 4072, 4074, 4126, 4204,
    4281, 4283, 4357, 4358, 4360, 4367, 4368, 4370, 4378, 4380, 4383, 4388, 4400, 4402, 4403, 4404,
    4408, 4409, 4413, 4457, 4458, 4459, 4463, 4464, 4477, 4479, 4480, 4481, 4482, 4486, 4490, 4492,
    4499, 4500, 4501, 4502, 4504, 4506, 4510, 4512, 4520, 4521, 4522, 4523, 4524, 4525, 4526, 4530,
    4531, 4532, 4534, 4536, 4540, 4541, 4570, 4575, 4576, 4580, 4581, 4585, 4586, 4590, 4591, 4595,
    4596, 4622, 4719, 4721, 4729, 4741, 4743, 4745, 4749, 4750, 4779, 4784, 4799, 4800, 4804, 4805,
    4829, 4830, 4832, 4833, 4834, 4835, 4837, 4838, 4931, 4932, 4936, 4937, 4988, 4993, 5008, 5009,
    5013, 5014, 5063, 5064, 5084, 5085, 5086, 5090, 5091, 5104, 5105, 5106, 5110, 5111, 5115, 5116,
    5118, 5119, 5120, 5121, 5123, 5124, 5125, 5126, 5130, 5131, 5135, 5136, 5140, 5141, 5145, 5146,
    5170, 5171, 5173, 5174, 5175, 5176, 5178, 5179, 5181, 5185, 5186, 5195, 5196, 5217, 5218, 5222,
    5223, 5272, 5273, 5336, 5414, 5491, 5493, 5567, 5568, 5570, 5577, 5578, 5580, 5588, 5590, 5593,
    5598, 5610, 5612, 5613, 5614, 5618, 5619, 5623, 5667, 5668, 5669, 5673, 5674, 5687, 5689, 5690,
    5691, 5692, 5696, 5700, 5702, 5709, 5710, 5711, 5712, 5714, 5716, 5720, 5722, 5730, 5731, 5732,
    5733, 5734, 5735, 5736, 5740, 5741, 5742, 5744, 5746, 5750, 5751, 5780, 5785, 5786, 5790, 5791,
    5795, 5796, 5800, 5801, 5805, 5806, 5832, 6141, 6142, 6146, 6147, 6198, 6203, 6218, 6219, 6223,
    6224, 6273, 6274, 6294, 6295, 6296, 6300, 6301, 6314, 6315, 6316, 6320, 6321, 6325, 6326, 6328,
    6329, 6330, 6331, 6333, 6334, 6335, 6336, 6340, 6341, 6345, 6346, 6350, 6351, 6355, 6356, 6380,
    6381, 6383, 6384, 6385, 6386, 6388, 6389, 6391, 6395, 6396, 6405, 6406, 6413, 6417, 6418, 6422,
    6423, 6427, 6428, 6432, 6433, 6457, 6458, 6460, 6461, 6462, 6463, 6465, 6466, 6468, 6472, 6473,
    6482, 6483, 6512, 6513, 6515, 6516, 6520, 6521, 6523, 6701, 6703, 6833, 7010, 7011, 7015, 7016,
    7042, 7351, 7352, 7356, 7357, 7408, 7413, 7428, 7429, 7433, 7434, 7483, 7484, 7560, 7561, 7565,
    7566, 7615, 7616, 7637, 7638, 7642, 7643, 7692, 7693, 7744, 7745, 7747, 7748, 7749, 7750, 7752,
    7753, 7754, 7755, 7759, 7760, 7764, 7765, 7769, 7770, 7774, 7775, 7777, 7778, 7779, 7780, 7781,
    7782, 7783, 7784, 7785, 7786, 7787, 7788, 7789, 7790, 7792, 7793, 7794, 7795, 7797, 7798, 7799,
    7800, 7802, 7803, 7804, 7805, 7807, 7808, 7810, 7814, 7815, 7824, 7825, 7832, 7833, 7834, 7835,
    7836, 7837, 7838, 7840, 7841, 7842, 7843, 7844, 7845, 7847, 7848, 7852, 7853, 7854, 7855, 7857,
    7858, 7862, 7863, 7901, 7902, 7987, 7988, 7990, 7997, 7998, 8000, 8008, 8010, 8013, 8018, 8030,
    8032, 8033, 8034, 8038, 8039, 8043, 8087, 8088, 8089, 8093, 8094, 8107, 8109, 8110, 8111, 8112,
    8116, 8120, 8122, 8129, 8130, 8131, 8132, 8134, 8136, 8140, 8142, 8150, 8151, 8152, 8153, 8154,
    8155, 8156, 8160, 8161, 8162, 8164, 8166, 8170, 8171, 8200, 8205, 8206, 8210, 8211, 8215, 8216,
    8220, 8221, 8225, 8226, 8252, 8349, 8351, 8359, 8371, 8373, 8375, 8379, 8380, 8409, 8414, 8429,
    8430, 8434, 8435, 8459, 8460, 8462, 8463, 8464, 8465, 8467, 8468, 8561, 8562, 8566, 8567, 8618,
    8623, 8638, 8639, 8643, 8644, 8693, 8694, 8714, 8715, 8716, 8720, 8721, 8734, 8735, 8736, 8740,
    8741, 8745, 8746, 8748, 8749, 8750, 8751, 8753, 8754, 8755, 8756, 8760, 8761, 8765, 8766, 8770,
    8771, 8775, 8776, 8800, 8801, 8803, 8804, 8805, 8806, 8808, 8809, 8811, 8815, 8816, 8825, 8826,
    8847, 8848, 8852, 8853, 8902, 8903, 8954, 8955, 8957, 8958, 8959, 8960, 8962, 8963, 8964, 8965,
    8969, 8970, 8974, 8975, 8979, 8980, 8984, 8985, 8987, 8988, 8989, 8990, 8991, 8992, 8993, 8994,
    8995, 8996, 8997, 8998, 8999, 9000, 9002, 9003, 9004, 9005, 9007, 9008, 9009, 9010, 9012, 9013,
    9014, 9015, 9017, 9018, 9020, 9024, 9025, 9034, 9035, 9042, 9043, 9044, 9045, 9046, 9047, 9048,
    9050, 9051, 9052, 9053, 9054, 9055, 9057, 9058, 9062, 9063, 9064, 9065, 9067, 9068, 9072, 9073,
    9111, 9112, 9243, 9244, 9430, 9431, 9435, 9436, 9462, 9771, 9772, 9776, 9777, 9828, 9833, 9848,
    9849, 9853, 9854, 9903, 9904, 9980, 9981, 9985, 9986, 10035, 10036, 10057, 10058, 10062, 10063, 10112,
    10113, 10321, 10322, 10453, 10454, 10530, 10531, 10560, 10561, 10563, 10564, 10568, 10569, 10571, 10618, 10619,
    10623, 10633, 10636, 10672, 10769, 10771, 10779, 10791, 10793, 10795, 10799, 10800, 10829, 10834, 10849, 10850,
    10854, 10855, 10879, 10880, 10882, 10883, 10884, 10885, 10887, 10888, 10981, 10982, 10986, 10987, 11038, 11043,
    11058, 11059, 11063, 11064, 11113, 11114, 11134, 11135, 11136, 11140, 11141, 11154, 11155, 11156, 11160, 11161,
    11165, 11166, 11168, 11169, 11170, 11171, 11173, 11174, 11175, 11176, 11180, 11181, 11185, 11186, 11190, 11191,
    11195, 11196, 11220, 11221, 11223, 11224, 11225, 11226, 11228, 11229, 11231, 11235, 11236, 11245, 11246, 11267,
    11268, 11272, 11273, 11322, 11323, 11374, 11375, 11377, 11378, 11379, 11380, 11382, 11383, 11384, 11385, 11389,
    11390, 11394, 11395, 11399, 11400, 11404, 11405, 11407, 11408, 11409, 11410, 11411, 11412, 11413, 11414, 11415,
    11416, 11417, 11418, 11419, 11420, 11422, 11423, 11424, 11425, 11427, 11428, 11429, 11430, 11432, 11433, 11434,
    11435, 11437, 11438, 11440, 11444, 11445, 11454, 11455, 11462, 11463, 11464, 11465, 11466, 11467, 11468, 11470,
    11471, 11472, 11473, 11474, 11475, 11477, 11478, 11482, 11483, 11484, 11485, 11487, 11488, 11492, 11493, 11531,
    11532, 11663, 11664, 11740, 11741, 11770, 11771, 11773, 11774, 11778, 11779, 11781, 11828, 11829, 11833, 11843,
    11846, 11979, 11981, 11989, 12001, 12003, 12005, 12009, 12010, 12039, 12044, 12059, 12060, 12064, 12065, 12089,
    12090, 12092, 12093, 12094, 12095, 12097, 12098, 12100, 12101, 12102, 12105, 12106, 12107, 12111, 12116, 12121,
    12122, 12124, 12125, 12126, 12127, 12131, 12132, 12135, 12136, 12137, 12141, 12142, 12155, 12156, 12157, 12161,
    12162, 12166, 12167, 12169, 12170, 12171, 12172, 12174, 12175, 12176, 12177, 12181, 12182, 12186, 12187, 12191,
    12192, 12196, 12197, 12248, 12253, 12268, 12269, 12273, 12274, 12323, 12324, 12344, 12345, 12346, 12350, 12351,
    12364, 12365, 12366, 12370, 12371, 12375, 12376, 12378, 12379, 12380, 12381, 12383, 12384, 12385, 12386, 12390,
    12391, 12395, 12396, 12400, 12401, 12405, 12406, 12430, 12431, 12433, 12434, 12435, 12436, 12438, 12439, 12441,
    12445, 12446, 12455, 12456, 12463, 12467, 12468, 12472, 12473, 12477, 12478, 12482, 12483, 12507, 12508, 12510,
    12511, 12512, 12513, 12515, 12516, 12518, 12522, 12523, 12532, 12533, 12562, 12563, 12565, 12566, 12570, 12571,
    12573, 12584, 12585, 12587, 12588, 12589, 12590, 12592, 12593, 12594, 12595, 12599, 12600, 12604, 12605, 12609,
    12610, 12614, 12615, 12617, 12618, 12619, 12620, 12621, 12622, 12623, 12624, 12625, 12626, 12627, 12628, 12629,
    12630, 12632, 12633, 12634, 12635, 12637, 12638, 12639, 12640, 12642, 12643, 12644, 12645, 12647, 12648, 12650,
    12654, 12655, 12664, 12665, 12672, 12673, 12674, 12675, 12676, 12677, 12678, 12680, 12681, 12682, 12683, 12684,
    12685, 12687, 12688, 12692, 12693, 12694, 12695, 12697, 12698, 12702, 12703, 12741, 12742, 12873, 12874, 12950,
    12951, 12980, 12981, 12983, 12984, 12988, 12989, 12991, 13038, 13039, 13043, 13053, 13056, 13068, 13072, 13073,
    13082, 13083, 13112, 13113, 13115, 13116, 13120, 13121, 13123, 13133, 13170, 13171, 13173, 13175, 13183, 13185,
    13188, 13189, 13190, 13192, 13193, 13197, 13198, 13200, 13222, 13223, 13225, 13226, 13227, 13228, 13230, 13232,
    13233, 13237, 13238, 13242, 13247, 13248, 13252, 13262, 13265, 13277, 13278, 13280, 13282, 13285, 13287, 13288,
    13292, 13295, 13297, 13302, 13305, 13307, 13401, 13402, 13406, 13407, 13458, 13463, 13478, 13479, 13483, 13484,
    13533, 13534, 13610, 13611, 13615, 13616, 13665, 13666, 13687, 13688, 13692, 13693, 13742, 13743, 13951, 13952,
    14083, 14084, 14160, 14161, 14190, 14191, 14193, 14194, 14198, 14199, 14201, 14248, 14249, 14253, 14263, 14266,
    14399, 14400, 14402, 14403, 14407, 14408, 14410, 14432, 14433, 14435, 14436, 14437, 14438, 14440, 14442, 14443,
    14447, 14448, 14452, 14457, 14458, 14462, 14472, 14475, 14487, 14488, 14490, 14492, 14495, 14497, 14498, 14502,
    14505, 14507, 14512, 14515, 14517
    }

overall_score(p, b, t, x) ==
    LET exact == 3 * p + 3 * b + 2 * t + 2 * x
    IN  IF ((p * 11 + b) * 11 + t) * 11 + x \in FloatTruncationLoss
        THEN exact - 1 ELSE exact

(* qualification_status with the qualifying threshold taken as exclusive. *)
qualification_status_above_threshold(score) ==
    IF score > 70 THEN "qualified"
    ELSE IF score >= 50 THEN "nurture"
    ELSE IF score >= 30 THEN "pending_review"
    ELSE "disqualified"

qualification_status(score) ==
    IF score >= 70 THEN "qualified"
    ELSE IF score >= 50 THEN "nurture"
    ELSE IF score >= 30 THEN "pending_review"
    ELSE "disqualified"

calculate_qualification_scores(call_data) ==
    LET p == pain_score(call_data)
        b == budget_score(call_data)
        t == timeline_score(call_data)
        x == technical_score(call_data)
        o == overall_score(p, b, t, x)
    IN  [pain_level |-> p, budget_authority |-> b, timeline_urgency |-> t,
         technical_fit |-> x, overall_score |-> o,
         status |-> qualification_status(o)]

(***************************************************************************)
(* Reference data read from the database.  A requirement text is held as   *)
(* the features the code reads from it: its length and the number of       *)
(* case-insensitive occurrences of "integration", "api" and "system".      *)
(***************************************************************************)
NoText == [length |-> 0, integration |-> 0, api |-> 0, system |-> 0]

(* Rows of service_catalog, by category: base_price in cents, hours. *)
CatalogRow(c) ==
    CASE c = "automation_development" -> [service_id |-> 1, service_category |-> c,
                                          base_price |-> 5000000, base_hours_required |-> 200]
      [] c = "process_optimization" -> [service_id |-> 2, service_category |-> c,
                                        base_price |-> 1500000, base_hours_required |-> 60]
      [] c = "integration_setup" -> [service_id |-> 3, service_category |-> c,
                                     base_price |-> 800000, base_hours_required |-> 40]
      [] c = "ongoing_management" -> [service_id |-> 4, service_category |-> c,
                                      base_price |-> 1200000, base_hours_required |-> 40]
      [] OTHER -> [service_id |-> 5, service_category |-> c,
                   base_price |-> 500000, base_hours_required |-> 20]

(***************************************************************************)
(* Service recommendation (lines 385-477).  services is the set of active  *)
(* catalog categories; the result is the list of ServiceConfiguration      *)
(* objects in the order the code appends them.                             *)
(***************************************************************************)
ServiceConfiguration(row, price, hours, qty) ==
    [service_id |-> row.service_id, service_category |-> row.service_category,
     base_price |-> price, base_hours_required |-> hours, quantity |-> qty]

complexity_factors(call_data) ==
    10 + (IF call_data.integration_requirements.length > 100 THEN 3 ELSE 0)
       + (IF call_data.compliance_requirements_length > 50 THEN 2 ELSE 0)
       + (IF call_data.security_requirements_length > 50 THEN 2 ELSE 0)
       + (IF call_data.team_size_affected > 20 THEN 3 ELSE 0)

(* The recommendation with the estimated number of integrations used as   *)
(* the quantity without the cap of five.                                   *)
analyze_requirements_and_recommend_services_uncapped(call_data, services) ==
    LET automation ==
            IF "automation_development" \in services
            THEN LET row == CatalogRow("automation_development")
                     cf == complexity_factors(call_data)
                 IN  <<ServiceConfiguration(row, (row.base_price * cf) \div 10,
                                            (row.base_hours_required * cf) \div 10, 1)>>
            ELSE <<>>
        process ==
            IF call_data.time_waste_hours_weekly > 10 /\ "process_optimization" \in services
            THEN LET row == CatalogRow("process_optimization")
                 IN  <<ServiceConfiguration(row, row.base_price, row.base_hours_required, 1)>>
            ELSE <<>>
        integration ==
            IF call_data.integration_requirements.length > 0
               /\ call_data.integration_requirements.integration > 0
               /\ "integration_setup" \in services
            THEN LET row == CatalogRow("integration_setup")
                     integration_count == call_data.integration_requirements.api
                                          + call_data.integration_requirements.system + 1
                 IN  <<ServiceConfiguration(row, row.base_price, row.base_hours_required,
                                            integration_count)>>
            ELSE <<>>
        ongoing ==
            IF call_data.company_size \in {"201-500", "501-1000", "1000+"}
               /\ "ongoing_management" \in services
            THEN LET row == CatalogRow("ongoing_management")
                 IN  <<ServiceConfiguration(row, row.base_price, row.base_hours_required, 1)>>
            ELSE <<>>
        training ==
            IF call_data.team_size_affected > 10 /\ "training" \in services
            THEN LET row == CatalogRow("training")
                 IN  <<ServiceConfiguration(row, row.base_price, row.base_hours_required, 1)>>
            ELSE <<>>
    IN  automation \o process \o integration \o ongoing \o training

analyze_requirements_and_recommend_services(call_data, services) ==
    LET automation ==
            IF "automation_development" \in services
            THEN LET row == CatalogRow("automation_development")
                     cf == complexity_factors(call_data)
                 IN  <<ServiceConfiguration(row, (row.base_price * cf) \div 10,
                                            (row.base_hours_required * cf) \div 10, 1)>>
            ELSE <<>>
        process ==
            IF call_data.time_waste_hours_weekly > 10 /\ "process_optimization" \in services
            THEN LET row == CatalogRow("process_optimization")
                 IN  <<ServiceConfiguration(row, row.base_price, row.base_hours_required, 1)>>
            ELSE <<>>
        integration ==
            IF call_data.integration_requirements.length > 0
               /\ call_data.integration_requirements.integration > 0
               /\ "integration_setup" \in services
            THEN LET row == CatalogRow("integration_setup")
                     integration_count == call_data.integration_requirements.api
                                          + call_data.integration_requirements.system + 1
                 IN  <<ServiceConfiguration(row, row.base_price, row.base_hours_required,
                                            Min(integration_count, 5))>>
            ELSE <<>>
        ongoing ==
            IF call_data.company_size \in {"201-500", "501-1000", "1000+"}
               /\ "ongoing_management" \in services
            THEN LET row == CatalogRow("ongoing_management")
                 IN  <<ServiceConfiguration(row, row.base_price, row.base_hours_required, 1)>>
            ELSE <<>>
        training ==
            IF call_data.team_size_affected > 10 /\ "training" \in services
            THEN LET row == CatalogRow("training")
                 IN  <<ServiceConfiguration(row, row.base_price, row.base_hours_required, 1)>>
            ELSE <<>>
    IN  automation \o process \o integration \o ongoing \o training

(***************************************************************************)
(* Pricing (lines 479-545), in cents; rates are held in percent.           *)
(***************************************************************************)
RECURSIVE SumOver(_, _)
SumOver(seq, field) ==
    IF seq = <<>> THEN 0
    ELSE (IF field = "price" THEN Head(seq).base_price * Head(seq).quantity
          ELSE Head(seq).base_hours_required * Head(seq).quantity)
         + SumOver(Tail(seq), field)

size_adjustments(s) ==
    CASE s = "1-10" -> -15
      [] s = "11-50" -> -5
      [] s = "51-200" -> 0
      [] s = "201-500" -> 10
      [] s = "501-1000" -> 15
      [] s = "1000+" -> 20
      [] OTHER -> 0

industry_premiums(i) ==
    CASE i = "healthcare" -> 15
      [] i = "finance" -> 20
      [] i = "government" -> 25
      [] OTHER -> 0

urgency_premiums(u) ==
    CASE u = "immediate" -> 25
      [] u = "1_month" -> 15
      [] u = "3_months" -> 5
      [] u = "6_months" -> 0
      [] u = "12_months" -> -5
      [] OTHER -> 0

MinimumProjectValue == 2500000

(* calculate_project_pricing with the volume discount starting at the     *)
(* thresholds instead of above them.                                      *)
calculate_project_pricing_inclusive_volume(call_data, services) ==
    LET base_cost == SumOver(services, "price")
        total_hours == SumOver(services, "hours")
        complexity_adjustment ==
            (base_cost * size_adjustments(call_data.company_size)) \div 100
            + (base_cost * industry_premiums(lower(call_data.industry))) \div 100
            + (base_cost * urgency_premiums(call_data.timeline_urgency)) \div 100
        volume == IF base_cost >= 20000000 THEN (base_cost * 10) \div 100
                  ELSE IF base_cost >= 10000000 THEN (base_cost * 5) \div 100
                  ELSE 0
        discounts == volume + (base_cost * 5) \div 100
        additional_services_cost == 0
        total_cost == base_cost + additional_services_cost + complexity_adjustment - discounts
    IN  [base_services_cost |-> base_cost,
         additional_services_cost |-> additional_services_cost,
         complexity_adjustments |-> complexity_adjustment,
         discounts_applied |-> discounts,
         total_project_cost |-> Max(total_cost, MinimumProjectValue),
         estimated_hours |-> total_hours]

calculate_project_pricing(call_data, services) ==
    LET base_cost == SumOver(services, "price")
        total_hours == SumOver(services, "hours")
        complexity_adjustment ==
            (base_cost * size_adjustments(call_data.company_size)) \div 100
            + (base_cost * industry_premiums(lower(call_data.industry))) \div 100
            + (base_cost * urgency_premiums(call_data.timeline_urgency)) \div 100
        volume == IF base_cost > 20000000 THEN (base_cost * 10) \div 100
                  ELSE IF base_cost > 10000000 THEN (base_cost * 5) \div 100
                  ELSE 0
        discounts == volume + (base_cost * 5) \div 100
        additional_services_cost == 0
        total_cost == base_cost + additional_services_cost + complexity_adjustment - discounts
    IN  [base_services_cost |-> base_cost,
         additional_services_cost |-> additional_services_cost,
         complexity_adjustments |-> complexity_adjustment,
         discounts_applied |-> discounts,
         total_project_cost |-> Max(total_cost, MinimumProjectValue),
         estimated_hours |-> total_hours]

(***************************************************************************)
(* Payment schedule (lines 681-752).                                       *)
(***************************************************************************)
(* total_cost is in cents; an amount is held in twentieths of a cent, the  *)
(* unit in which 50, 40, 30 and 25 percent of any number of cents is whole. *)
AmountsPerCent == 20

Milestone(name, pct, total_cost) ==
    [milestone |-> name, percentage |-> pct,
     amount |-> total_cost * ((pct * AmountsPerCent) \div 100)]

(* The amounts are binary64 products (total_cost * 0.3 and so on, lines    *)
(* 689-743), so adding them up rounds in binary64 as well.  For the totals *)
(* of TotalCosts the rounded sum is the total itself except for the totals *)
(* below, where it comes out one unit in the last place under (-1) or over *)
(* (1) it: 50000.01 gives 15000.003 + 20000.004 + 15000.003 =              *)
(* 50000.009999999995.                                                     *)
Binary64SumResidue(total_cost) ==
    CASE total_cost \in {5000001, 5000002, 5000021} -> -1
      [] total_cost \in {5000004, 5000018, 5000023} -> 1
      [] OTHER -> 0

RECURSIVE SumOfAmounts(_)
SumOfAmounts(schedule) ==
    IF schedule = <<>> THEN 0
    ELSE Head(schedule).amount + SumOfAmounts(Tail(schedule))

(* The amounts of the schedule for total_cost added up in binary64: the    *)
(* exact sum in twentieths of a cent, moved off it by one where the        *)
(* rounded sum differs from the exact one.                                 *)
Binary64SumOfAmounts(schedule, total_cost) ==
    SumOfAmounts(schedule) + Binary64SumResidue(total_cost)

(* create_payment_schedule with the tier bounds taken as inclusive. *)
create_payment_schedule_inclusive_bounds(total_cost) ==
    IF total_cost <= 5000000
    THEN <<Milestone("Project Start", 50, total_cost),
           Milestone("Project Completion", 50, total_cost)>>
    ELSE IF total_cost <= 15000000
    THEN <<Milestone("Project Start", 30, total_cost),
           Milestone("Development Milestone", 40, total_cost),
           Milestone("Project Completion", 30, total_cost)>>
    ELSE <<Milestone("Project Start", 25, total_cost),
           Milestone("Development Phase 1", 25, total_cost),
           Milestone("Development Phase 2", 25, total_cost),
           Milestone("Project Completion", 25, total_cost)>>

create_payment_schedule(total_cost) ==
    IF total_cost < 5000000
    THEN <<Milestone("Project Start", 50, total_cost),
           Milestone("Project Completion", 50, total_cost)>>
    ELSE IF total_cost < 15000000
    THEN <<Milestone("Project Start", 30, total_cost),
           Milestone("Development Milestone", 40, total_cost),
           Milestone("Project Completion", 30, total_cost)>>
    ELSE <<Milestone("Project Start", 25, total_cost),
           Milestone("Development Phase 1", 25, total_cost),
           Milestone("Development Phase 2", 25, total_cost),
           Milestone("Project Completion", 25, total_cost)>>

(***************************************************************************)
(* The database.                                                           *)
(***************************************************************************)
VARIABLES
    service_catalog,          \* categories of the active service_catalog rows
    contract_templates,       \* template_id -> contract_templates row
    kickoff_templates,        \* template_id -> kickoff_templates row
    discovery_calls,
    generated_sows,
    generated_contracts,
    payment_configurations,
    payment_transactions,
    project_kickoffs,
    workflow_automation_log,
    now,                      \* datetime.now(), in days
    result                    \* what the last operation returned to its caller

reference == <<service_catalog, contract_templates, kickoff_templates>>
tables == <<discovery_calls, generated_sows, generated_contracts, payment_configurations,
            payment_transactions, project_kickoffs, workflow_automation_log>>
vars == <<reference, tables, now, result>>

(* The tables as one value, so that a handler can be written as a function *)
(* from the database before it to the database after it.                   *)
DB == [discovery_calls |-> discovery_calls,
       generated_sows |-> generated_sows,
       generated_contracts |-> generated_contracts,
       payment_configurations |-> payment_configurations,
       payment_transactions |-> payment_transactions,
       project_kickoffs |-> project_kickoffs,
       workflow_automation_log |-> workflow_automation_log]

Store(db) ==
    /\ discovery_calls' = db.discovery_calls
    /\ generated_sows' = db.generated_sows
    /\ generated_contracts' = db.generated_contracts
    /\ payment_configurations' = db.payment_configurations
    /\ payment_transactions' = db.payment_transactions
    /\ project_kickoffs' = db.project_kickoffs
    /\ workflow_automation_log' = db.workflow_automation_log

(* What a call returns: an id (lastrowid), None, or a raised exception. *)
None == [kind |-> "None", id |-> 0]
RowId(n) == [kind |-> "id", id |-> n]

Returned(op, arg, ret) == [op |-> op, arg |-> arg, ret |-> ret]

(* conn.commit() on the engine's connection: every row written on it so *)
(* far becomes durable, whichever call wrote it.                        *)
MarkDurable(rows) == [i \in 1..Len(rows) |-> [rows[i] EXCEPT !.durable = TRUE]]

commit(db) ==
    [db EXCEPT !.payment_configurations = MarkDurable(@),
               !.payment_transactions = MarkDurable(@),
               !.project_kickoffs = MarkDurable(@)]

(* The engine's connection holds an open write transaction. *)
InTransaction(db) ==
    \/ \E i \in 1..Len(db.payment_configurations) : ~db.payment_configurations[i].durable
    \/ \E i \in 1..Len(db.payment_transactions) : ~db.payment_transactions[i].durable
    \/ \E i \in 1..Len(db.project_kickoffs) : ~db.project_kickoffs[i].durable

(***************************************************************************)
(* _log_workflow_automation (lines 1078-1095): INSERT, then commit.        *)
(***************************************************************************)
(* _log_workflow_automation keeping only the latest entry of a source    *)
(* record: it replaces the entries already written for it.               *)
log_workflow_automation_replacing(db, process_type, source_id, target_id, action) ==
    commit([db EXCEPT !.workflow_automation_log =
        Append(SelectSeq(@, LAMBDA e : ~(e.process_type = process_type
                                         /\ e.source_record_id = source_id)),
               [process_type |-> process_type,
                source_record_id |-> source_id,
                target_record_id |-> target_id,
                automation_trigger |-> "automatic_trigger",
                automation_action |-> action,
                automation_status |-> "completed",
                triggered_by_user |-> "system"])])

log_workflow_automation(db, process_type, source_id, target_id, action) ==
    commit([db EXCEPT !.workflow_automation_log =
        Append(@, [process_type |-> process_type,
                   source_record_id |-> source_id,
                   target_record_id |-> target_id,
                   automation_trigger |-> "automatic_trigger",
                   automation_action |-> action,
                   automation_status |-> "completed",
                   triggered_by_user |-> "system"])])

(***************************************************************************)
(* generate_sow_from_discovery (lines 314-383).                            *)
(***************************************************************************)
(* json.dumps of the recommended services: the list holds                  *)
(* ServiceConfiguration dataclass objects, which the json module cannot    *)
(* serialise (TypeError); only the empty list serialises.                  *)
json_dumps_services_raises(recommended_services) == recommended_services # <<>>

(* included_services as a later json.loads reads it back *)
ServiceDicts(recommended_services) ==
    [i \in 1..Len(recommended_services) |->
        [service_category |-> recommended_services[i].service_category]]

ExpiryDays == 30

generate_sow_from_discovery(db, call_id, t) ==
    IF call_id \notin 1..Len(db.discovery_calls)
    THEN [db |-> db, ret |-> None]
    ELSE
    LET call_data == db.discovery_calls[call_id].call_data
        recommended_services ==
            analyze_requirements_and_recommend_services(call_data, service_catalog)
        pricing == calculate_project_pricing(call_data, recommended_services)
        payment_schedule == create_payment_schedule(pricing.total_project_cost)
        sow_id == Len(db.generated_sows) + 1
        row == [discovery_call_id |-> call_id,
                included_services |-> ServiceDicts(recommended_services),
                timeline_weeks |-> pricing.estimated_hours \div 40 + 1,
                total_project_cost |-> pricing.total_project_cost,
                payment_schedule |-> payment_schedule,
                sow_status |-> "draft",
                expires_at |-> t + ExpiryDays]
    IN  IF json_dumps_services_raises(recommended_services)
        THEN [db |-> db, ret |-> None]
        ELSE [db |-> log_workflow_automation(
                        commit([db EXCEPT !.generated_sows = Append(@, row)]),
                        "discovery_to_sow", call_id, sow_id, "sow_generated"),
              ret |-> RowId(sow_id)]

(***************************************************************************)
(* process_discovery_call (lines 139-209).                                 *)
(***************************************************************************)
process_discovery_call(db, call_data, t) ==
    LET qualification_scores == calculate_qualification_scores(call_data)
        call_id == Len(db.discovery_calls) + 1
        row == [call_data |-> call_data,
                overall_qualification_score |-> qualification_scores.overall_score,
                qualified_status |-> qualification_scores.status]
        inserted == commit([db EXCEPT !.discovery_calls = Append(@, row)])
        logged == log_workflow_automation(inserted, "discovery_to_sow", call_id, 0,
                                          "discovery_call_processed")
    IN  [db |-> IF qualification_scores.status = "qualified"
                THEN generate_sow_from_discovery(logged, call_id, t).db
                ELSE logged,
         ret |-> RowId(call_id)]

(***************************************************************************)
(* Contract generation (lines 758-868).                                    *)
(***************************************************************************)
(* The placeholder tokens _generate_contract_content substitutes. *)
variables ==
    {"{{CONTRACT_NUMBER}}", "{{CONTRACT_DATE}}", "{{CLIENT_COMPANY_NAME}}",
     "{{CLIENT_CONTACT_NAME}}", "{{CLIENT_CONTACT_TITLE}}", "{{CLIENT_EMAIL}}",
     "{{PROJECT_TITLE}}", "{{PROJECT_DESCRIPTION}}", "{{TOTAL_CONTRACT_VALUE}}",
     "{{PROJECT_TIMELINE}}", "{{DELIVERABLES}}", "{{PAYMENT_TERMS}}",
     "{{GOVERNING_LAW}}", "{{LIABILITY_CAP}}", "{{WARRANTY_PERIOD}}",
     "{{PROVIDER_SIGNATORY}}"}

(* sow_data is a sqlite3.Row (row_factory, line 123).  sqlite3.Row has      *)
(* keys() and item access but no get() method, so building the variables   *)
(* dict raises AttributeError at line 857.                                 *)
sqlite3_Row_has_get == FALSE

(* A piece of rendered text: the literal, or the value put in its place. *)
Rendered(token, sow_id, sow_data, t) ==
    IF token \in variables
    THEN [text |-> token, replaced |-> TRUE,
          value |-> CASE token = "{{CONTRACT_NUMBER}}" -> sow_id
                      [] token = "{{CONTRACT_DATE}}" -> t
                      [] token = "{{TOTAL_CONTRACT_VALUE}}" -> sow_data.total_project_cost
                      [] token = "{{PROJECT_TIMELINE}}" -> sow_data.timeline_weeks
                      [] OTHER -> 0]
    ELSE [text |-> token, replaced |-> FALSE, value |-> 0]

generate_contract_content(sow_id, sow_data, template, t) ==
    [raised |-> ~sqlite3_Row_has_get,
     content |-> [i \in 1..Len(template.template_content) |->
                     Rendered(template.template_content[i], sow_id, sow_data, t)]]

sha256(content) == [digest_of |-> content]

(* generate_contract_from_sow with the rejection of a proposal that is not *)
(* approved written to the ledger.                                         *)
generate_contract_from_sow_logging_rejection(db, sow_id, template_id, t) ==
    IF sow_id \notin 1..Len(db.generated_sows)
    THEN [db |-> db, ret |-> None]
    ELSE IF db.generated_sows[sow_id].sow_status # "approved"
    THEN [db |-> log_workflow_automation(db, "sow_to_contract", sow_id, 0,
                                         "contract_generation_rejected"),
          ret |-> None]
    ELSE [db |-> db, ret |-> None]

generate_contract_from_sow(db, sow_id, template_id, t) ==
    IF sow_id \notin 1..Len(db.generated_sows)
       \/ db.generated_sows[sow_id].discovery_call_id \notin 1..Len(db.discovery_calls)
    THEN [db |-> db, ret |-> None]
    ELSE IF db.generated_sows[sow_id].sow_status # "approved"
    THEN [db |-> db, ret |-> None]
    ELSE IF template_id \notin DOMAIN contract_templates
    THEN [db |-> db, ret |-> None]
    ELSE
    LET sow_data == db.generated_sows[sow_id]
        rendering == generate_contract_content(sow_id, sow_data,
                                               contract_templates[template_id], t)
        project_start == t + 14
        contract_id == Len(db.generated_contracts) + 1
        row == [sow_id |-> sow_id,
                template_id |-> template_id,
                contract_number |-> [yyyymm_of |-> t, number |-> sow_id],
                total_contract_value |-> sow_data.total_project_cost,
                payment_schedule |-> sow_data.payment_schedule,
                project_start_date |-> project_start,
                project_end_date |-> project_start + 7 * sow_data.timeline_weeks,
                contract_effective_date |-> t,
                contract_expiration_date |-> t + 365,
                contract_content |-> rendering.content,
                contract_hash |-> sha256(rendering.content),
                contract_status |-> "draft"]
    IN  IF rendering.raised
        THEN [db |-> db, ret |-> None]
        ELSE [db |-> log_workflow_automation(
                        commit([db EXCEPT !.generated_contracts = Append(@, row)]),
                        "sow_to_contract", sow_id, contract_id, "contract_generated"),
              ret |-> RowId(contract_id)]

(***************************************************************************)
(* Payment processing setup (lines 874-956).                               *)
(***************************************************************************)
InvoiceDueDays == 7

(* _generate_milestone_invoices without the test on the milestone name: *)
(* every milestone of the schedule is invoiced at once.                  *)
generate_milestone_invoices_for_all(config_id, payment_schedule, t) ==
    [i \in 1..Len(payment_schedule) |->
        [config_id |-> config_id,
         transaction_type |-> "invoice",
         amount |-> payment_schedule[i].amount,
         invoice_due_date |-> t + InvoiceDueDays,
         milestone |-> payment_schedule[i].milestone,
         transaction_status |-> "pending",
         durable |-> FALSE]]

RECURSIVE generate_milestone_invoices(_, _, _)
generate_milestone_invoices(config_id, payment_schedule, t) ==
    IF payment_schedule = <<>> THEN <<>>
    ELSE (IF Head(payment_schedule).milestone = "Project Start"
          THEN <<[config_id |-> config_id,
                  transaction_type |-> "invoice",
                  amount |-> Head(payment_schedule).amount,
                  invoice_due_date |-> t + InvoiceDueDays,
                  milestone |-> Head(payment_schedule).milestone,
                  transaction_status |-> "pending",
                  durable |-> FALSE]>>
          ELSE <<>>)
         \o generate_milestone_invoices(config_id, Tail(payment_schedule), t)

(* setup_payment_processing with the contract_status condition left out *)
(* of its query.                                                         *)
setup_payment_processing_any_status(db, contract_id, t) ==
    IF contract_id \notin 1..Len(db.generated_contracts)
       \/ db.generated_contracts[contract_id].sow_id \notin 1..Len(db.generated_sows)
    THEN [db |-> db, ret |-> None]
    ELSE
    LET contract_data == db.generated_contracts[contract_id]
        payment_schedule == db.generated_sows[contract_data.sow_id].payment_schedule
        config_id == Len(db.payment_configurations) + 1
        config == [contract_id |-> contract_id,
                   payment_type |-> "milestone_based",
                   total_amount |-> contract_data.total_contract_value,
                   payment_schedule |-> payment_schedule,
                   durable |-> FALSE]
        invoiced == [db EXCEPT
                        !.payment_configurations = Append(@, config),
                        !.payment_transactions =
                            @ \o generate_milestone_invoices(config_id, payment_schedule, t)]
    IN  [db |-> log_workflow_automation(commit(invoiced), "contract_to_payment",
                                        contract_id, config_id, "payment_setup"),
         ret |-> RowId(config_id)]

setup_payment_processing(db, contract_id, t) ==
    IF contract_id \notin 1..Len(db.generated_contracts)
       \/ db.generated_contracts[contract_id].sow_id \notin 1..Len(db.generated_sows)
       \/ db.generated_contracts[contract_id].contract_status # "fully_executed"
    THEN [db |-> db, ret |-> None]
    ELSE
    LET contract_data == db.generated_contracts[contract_id]
        payment_schedule == db.generated_sows[contract_data.sow_id].payment_schedule
        config_id == Len(db.payment_configurations) + 1
        config == [contract_id |-> contract_id,
                   payment_type |-> "milestone_based",
                   total_amount |-> contract_data.total_contract_value,
                   payment_schedule |-> payment_schedule,
                   durable |-> FALSE]
        invoiced == [db EXCEPT
                        !.payment_configurations = Append(@, config),
                        !.payment_transactions =
                            @ \o generate_milestone_invoices(config_id, payment_schedule, t)]
    IN  [db |-> log_workflow_automation(commit(invoiced), "contract_to_payment",
                                        contract_id, config_id, "payment_setup"),
         ret |-> RowId(config_id)]

(***************************************************************************)
(* Project kickoff (lines 962-1072).                                       *)
(***************************************************************************)
select_kickoff_template(services) ==
    LET categories == [i \in 1..Len(services) |-> services[i].service_category]
        has_automation == \E i \in 1..Len(categories) :
                              categories[i] = "automation_development"
    IN  IF has_automation /\ Len(categories) > 2 THEN 1
        ELSE IF has_automation THEN 2
        ELSE 3

(* The payment check counting every completed transaction, invoices *)
(* included, and every pending payment.                              *)
payment_count_any_transaction(db, contract_id) ==
    Cardinality({i \in 1..Len(db.payment_transactions) :
        /\ db.payment_transactions[i].config_id \in 1..Len(db.payment_configurations)
        /\ db.payment_configurations[db.payment_transactions[i].config_id].contract_id
               = contract_id})

payment_count(db, contract_id) ==
    Cardinality({i \in 1..Len(db.payment_transactions) :
        /\ db.payment_transactions[i].config_id \in 1..Len(db.payment_configurations)
        /\ db.payment_configurations[db.payment_transactions[i].config_id].contract_id
               = contract_id
        /\ db.payment_transactions[i].transaction_status = "completed"
        /\ db.payment_transactions[i].transaction_type = "payment"})

KickoffDays == 3

(* _initialize_project_kickoff_tasks: the UPDATE of the inserted row, or   *)
(* the exception json.loads raises on a template whose initial_deliverables *)
(* is not a JSON text.                                                     *)
(* _initialize_project_kickoff_tasks reading the template and never *)
(* writing its deliverables to the kickoff row.                      *)
initialize_project_kickoff_tasks_without_update(db, kickoff_id, template_id) ==
    IF template_id \notin DOMAIN kickoff_templates
    THEN [raised |-> FALSE, db |-> db]
    ELSE IF ~kickoff_templates[template_id].valid_json
    THEN [raised |-> TRUE, db |-> db]
    ELSE [raised |-> FALSE, db |-> db]

initialize_project_kickoff_tasks(db, kickoff_id, template_id) ==
    IF template_id \notin DOMAIN kickoff_templates
    THEN [raised |-> FALSE, db |-> db]
    ELSE IF ~kickoff_templates[template_id].valid_json
    THEN [raised |-> TRUE, db |-> db]
    ELSE [raised |-> FALSE,
          db |-> [db EXCEPT !.project_kickoffs[kickoff_id] =
                     [@ EXCEPT !.has_deliverables = TRUE,
                               !.kickoff_deliverables =
                                   kickoff_templates[template_id].initial_deliverables]]]

(* The kickoff trigger without the verification that a first payment was  *)
(* received.                                                               *)
trigger_project_kickoff_without_payment_check(db, contract_id, t) ==
    IF contract_id \notin 1..Len(db.generated_contracts)
       \/ db.generated_contracts[contract_id].sow_id \notin 1..Len(db.generated_sows)
    THEN [db |-> db, ret |-> None]
    ELSE
    LET contract_data == db.generated_contracts[contract_id]
        services == db.generated_sows[contract_data.sow_id].included_services
        template_id == select_kickoff_template(services)
        kickoff_id == Len(db.project_kickoffs) + 1
        row == [contract_id |-> contract_id,
                template_id |-> template_id,
                project_code |-> [yymm_of |-> t, number |-> contract_id],
                project_manager |-> "Alex Thompson",
                kickoff_scheduled_date |-> t + KickoffDays,
                has_deliverables |-> FALSE,
                kickoff_deliverables |-> <<>>,
                durable |-> FALSE]
        inserted == [db EXCEPT !.project_kickoffs = Append(@, row)]
        initialized == initialize_project_kickoff_tasks(inserted, kickoff_id, template_id)
    IN  IF initialized.raised
        THEN [db |-> inserted, ret |-> None]
        ELSE [db |-> log_workflow_automation(commit(initialized.db), "payment_to_kickoff",
                                             contract_id, kickoff_id, "kickoff_triggered"),
              ret |-> RowId(kickoff_id)]

trigger_project_kickoff(db, contract_id, t) ==
    IF contract_id \notin 1..Len(db.generated_contracts)
       \/ db.generated_contracts[contract_id].sow_id \notin 1..Len(db.generated_sows)
    THEN [db |-> db, ret |-> None]
    ELSE IF payment_count(db, contract_id) = 0
    THEN [db |-> db, ret |-> None]
    ELSE
    LET contract_data == db.generated_contracts[contract_id]
        services == db.generated_sows[contract_data.sow_id].included_services
        template_id == select_kickoff_template(services)
        kickoff_id == Len(db.project_kickoffs) + 1
        row == [contract_id |-> contract_id,
                template_id |-> template_id,
                project_code |-> [yymm_of |-> t, number |-> contract_id],
                project_manager |-> "Alex Thompson",
                kickoff_scheduled_date |-> t + KickoffDays,
                has_deliverables |-> FALSE,
                kickoff_deliverables |-> <<>>,
                durable |-> FALSE]
        inserted == [db EXCEPT !.project_kickoffs = Append(@, row)]
        initialized == initialize_project_kickoff_tasks(inserted, kickoff_id, template_id)
    IN  IF initialized.raised
        THEN [db |-> inserted, ret |-> None]
        ELSE [db |-> log_workflow_automation(commit(initialized.db), "payment_to_kickoff",
                                             contract_id, kickoff_id, "kickoff_triggered"),
              ret |-> RowId(kickoff_id)]

(***************************************************************************)
(* Inputs.                                                                 *)
(***************************************************************************)
Intake(hours, cost, team, budget, dm, urgency, size, industry) ==
    [time_waste_hours_weekly |-> hours,
     estimated_cost_inefficiency |-> cost,
     team_size_affected |-> team,
     budget_range |-> budget,
     decision_maker_name |-> dm,
     timeline_urgency |-> urgency,
     company_size |-> size,
     industry |-> industry,
     integration_requirements |-> NoText,
     compliance_requirements_length |-> 0,
     security_requirements_length |-> 0]

(* One discovery call for each qualification status: scores 100, 69, 35, 22. *)
HotIntake == Intake(25, 120000, 15, "250k_plus", TRUE, "immediate", "51-200", "Technology")
EdgeIntake == Intake(25, 30000, 0, "100k_250k", FALSE, "1_month", "1-10", "Retail")
CoolIntake == Intake(6, 0, 0, "25k_50k", FALSE, "6_months", "1-10", "Retail")
ColdIntake == Intake(0, 0, 0, "under_25k", FALSE, "12_months", "1-10", "Retail")
Intakes == {HotIntake, EdgeIntake, CoolIntake, ColdIntake}

AllCategories == {ServiceCategories[i] : i \in 1..Len(ServiceCategories)}

(* kickoff_templates rows 1..3 as the database may hold them. *)
KickoffTemplateKinds == {"seeded", "no_rows", "empty_list", "null_deliverables"}

KickoffDeliverables(template_id) ==
    CASE template_id = 1 -> <<"Architecture workshop", "Integration inventory", "Project plan">>
      [] template_id = 2 -> <<"Requirements review", "Project plan">>
      [] OTHER -> <<"Project plan">>

KickoffTemplates(kind) ==
    IF kind = "no_rows" THEN <<>>
    ELSE [template_id \in 1..3 |->
            [valid_json |-> kind # "null_deliverables",
             initial_deliverables |->
                 IF kind = "seeded" THEN KickoffDeliverables(template_id) ELSE <<>>]]

StandardTemplate ==
    [template_content |-> <<"AGREEMENT ", "{{CONTRACT_NUMBER}}", " dated ", "{{CONTRACT_DATE}}",
                            " value ", "{{TOTAL_CONTRACT_VALUE}}", " term ",
                            "{{PROJECT_TIMELINE}}", " terms ", "{{PAYMENT_TERMS}}">>]

(* Placeholder tokens a template may hold that the substitution set lacks. *)
UnmatchedTokens == {"{{CLIENT_ADDRESS}}"}

(* A template edited to name the client's address, which has no variable. *)
CustomTemplate ==
    [template_content |-> StandardTemplate.template_content
                              \o <<" address ", "{{CLIENT_ADDRESS}}">>]

ContractTemplates == <<StandardTemplate, CustomTemplate>>

(***************************************************************************)
(* The database the engine connects to (line 122) already exists: its      *)
(* schema and reference data are loaded by the database initialisation,    *)
(* and it may hold the rows of an earlier run of the pipeline.  The sample *)
(* pipeline below is one discovery call taken to a contract.               *)
(***************************************************************************)
SampleServices ==
    analyze_requirements_and_recommend_services(HotIntake, AllCategories)

SamplePricing == calculate_project_pricing(HotIntake, SampleServices)

SampleCall ==
    [call_data |-> HotIntake,
     overall_qualification_score |-> calculate_qualification_scores(HotIntake).overall_score,
     qualified_status |-> calculate_qualification_scores(HotIntake).status]

SampleSow ==
    [discovery_call_id |-> 1,
     included_services |-> ServiceDicts(SampleServices),
     timeline_weeks |-> SamplePricing.estimated_hours \div 40 + 1,
     total_project_cost |-> SamplePricing.total_project_cost,
     payment_schedule |-> create_payment_schedule(SamplePricing.total_project_cost),
     sow_status |-> "approved",
     expires_at |-> ExpiryDays]

SampleContract(status) ==
    [sow_id |-> 1,
     template_id |-> 1,
     contract_number |-> [yyyymm_of |-> 0, number |-> 1],
     total_contract_value |-> SampleSow.total_project_cost,
     payment_schedule |-> SampleSow.payment_schedule,
     project_start_date |-> 14,
     project_end_date |-> 14 + 7 * SampleSow.timeline_weeks,
     contract_effective_date |-> 0,
     contract_expiration_date |-> 365,
     contract_content |-> <<>>,
     contract_hash |-> sha256(<<>>),
     contract_status |-> status]

EmptyDatabase ==
    [discovery_calls |-> <<>>, generated_sows |-> <<>>, generated_contracts |-> <<>>,
     payment_configurations |-> <<>>, payment_transactions |-> <<>>,
     project_kickoffs |-> <<>>, workflow_automation_log |-> <<>>]

SampleDatabase(status) ==
    LET called == log_workflow_automation(
                      [EmptyDatabase EXCEPT !.discovery_calls = <<SampleCall>>],
                      "discovery_to_sow", 1, 0, "discovery_call_processed")
        proposed == log_workflow_automation(
                        [called EXCEPT !.generated_sows = <<SampleSow>>],
                        "discovery_to_sow", 1, 1, "sow_generated")
    IN  log_workflow_automation(
            [proposed EXCEPT !.generated_contracts = <<SampleContract(status)>>],
            "sow_to_contract", 1, 1, "contract_generated")

InitialDatabases == {EmptyDatabase} \cup {SampleDatabase(s) : s \in ContractStatus}

(* The reference data the database initialisation may have loaded: the *)
(* catalog and contract templates the sales half reads, the kickoff     *)
(* templates the delivery half reads.                                   *)
SalesReferenceData ==
    {[catalog |-> catalog, contracts |-> ContractTemplates, kickoffs |-> "seeded"] :
        catalog \in {{}, AllCategories}}

DeliveryReferenceData ==
    {[catalog |-> AllCategories, contracts |-> ContractTemplates, kickoffs |-> kind] :
        kind \in KickoffTemplateKinds}

ReferenceData == SalesReferenceData \cup DeliveryReferenceData

Connect(references, databases) ==
    /\ \E ref \in references :
        /\ service_catalog = ref.catalog
        /\ contract_templates = ref.contracts
        /\ kickoff_templates = KickoffTemplates(ref.kickoffs)
    /\ \E db \in databases :
        /\ discovery_calls = db.discovery_calls
        /\ generated_sows = db.generated_sows
        /\ generated_contracts = db.generated_contracts
        /\ payment_configurations = db.payment_configurations
        /\ payment_transactions = db.payment_transactions
        /\ project_kickoffs = db.project_kickoffs
        /\ workflow_automation_log = db.workflow_automation_log
    /\ now = 0
    /\ result = Returned("connect", 0, None)

Init == Connect(ReferenceData, InitialDatabases)

(***************************************************************************)
(* Actions: the engine's public operations.                                *)
(***************************************************************************)
CallIds == 1..(Len(discovery_calls) + 1)
SowIds == 1..(Len(generated_sows) + 1)
TemplateIds == 1..(Len(contract_templates) + 1)
ContractIds == 1..(Len(generated_contracts) + 1)

ProcessDiscoveryCall(call_data) ==
    /\ Len(discovery_calls) < MaxCalls
    /\ Len(generated_sows) < MaxSows
    /\ LET r == process_discovery_call(DB, call_data, now)
       IN  /\ Store(r.db)
           /\ result' = Returned("process_discovery_call", r.ret.id, r.ret)
    /\ UNCHANGED <<reference, now>>

GenerateSowFromDiscovery(call_id) ==
    /\ Len(generated_sows) < MaxSows
    /\ LET r == generate_sow_from_discovery(DB, call_id, now)
       IN  /\ Store(r.db)
           /\ result' = Returned("generate_sow_from_discovery", call_id, r.ret)
    /\ UNCHANGED <<reference, now>>

GenerateContractFromSow(sow_id, template_id) ==
    /\ LET r == generate_contract_from_sow(DB, sow_id, template_id, now)
       IN  /\ Store(r.db)
           /\ result' = Returned("generate_contract_from_sow", sow_id, r.ret)
    /\ UNCHANGED <<reference, now>>

SetupPaymentProcessing(contract_id) ==
    /\ Len(payment_configurations) < MaxConfigs
    /\ LET r == setup_payment_processing(DB, contract_id, now)
       IN  /\ Store(r.db)
           /\ result' = Returned("setup_payment_processing", contract_id, r.ret)
    /\ UNCHANGED <<reference, now>>

TriggerProjectKickoff(contract_id) ==
    /\ Len(project_kickoffs) < MaxKickoffs
    /\ LET r == trigger_project_kickoff(DB, contract_id, now)
       IN  /\ Store(r.db)
           /\ result' = Returned("trigger_project_kickoff", contract_id, r.ret)
    /\ UNCHANGED <<reference, now>>

(***************************************************************************)
(* Actions: the dashboard's request handlers.  Each opens a connection of  *)
(* its own for its UPDATE; while the engine's connection holds an open     *)
(* write transaction that UPDATE fails ("database is locked") and the      *)
(* handler answers with the error.                                         *)
(***************************************************************************)
Success(id) == [kind |-> "success", id |-> id]
Error == [kind |-> "error", id |-> 0]

ApiApproveSow(sow_id) ==
    /\ IF InTransaction(DB)
       THEN /\ UNCHANGED tables
            /\ result' = Returned("api_approve_sow", sow_id, Error)
       ELSE LET updated == IF sow_id \in 1..Len(generated_sows)
                           THEN [DB EXCEPT !.generated_sows[sow_id].sow_status = "approved"]
                           ELSE DB
                r == generate_contract_from_sow(updated, sow_id, 1, now)
            IN  /\ Store(r.db)
                /\ result' = Returned("api_approve_sow", sow_id, Success(r.ret.id))
    /\ UNCHANGED <<reference, now>>

ApiSendContract(contract_id) ==
    /\ IF InTransaction(DB)
       THEN /\ UNCHANGED tables
            /\ result' = Returned("api_send_contract", contract_id, Error)
       ELSE /\ Store(IF contract_id \in 1..Len(generated_contracts)
                     THEN [DB EXCEPT !.generated_contracts[contract_id].contract_status =
                                         "sent_for_signature"]
                     ELSE DB)
            /\ result' = Returned("api_send_contract", contract_id, Success(0))
    /\ UNCHANGED <<reference, now>>

ApiExecuteContract(contract_id) ==
    /\ Len(payment_configurations) < MaxConfigs
    /\ Len(project_kickoffs) < MaxKickoffs
    /\ IF InTransaction(DB)
       THEN /\ UNCHANGED tables
            /\ result' = Returned("api_execute_contract", contract_id, Error)
       ELSE LET updated == IF contract_id \in 1..Len(generated_contracts)
                           THEN [DB EXCEPT !.generated_contracts[contract_id].contract_status =
                                               "fully_executed"]
                           ELSE DB
                paid == setup_payment_processing(updated, contract_id, now)
                kicked == trigger_project_kickoff(paid.db, contract_id, now)
            IN  /\ Store(kicked.db)
                /\ result' = Returned("api_execute_contract", contract_id,
                                      [kind |-> "success", id |-> paid.ret.id,
                                       kickoff_id |-> kicked.ret.id])
    /\ UNCHANGED <<reference, now>>

(***************************************************************************)
(* Actions of the environment: the steps the pipeline leaves to external   *)
(* parties (review and sending of a proposal, its rejection or expiry; the *)
(* payment gateway recording a received payment), and the passing of time. *)
(***************************************************************************)
ExternalSowTransitions ==
    {<<"draft", "review">>, <<"review", "sent">>, <<"sent", "rejected">>, <<"sent", "expired">>}

ExternalSowTransition(sow_id, to) ==
    /\ sow_id \in 1..Len(generated_sows)
    /\ <<generated_sows[sow_id].sow_status, to>> \in ExternalSowTransitions
    /\ ~InTransaction(DB)
    /\ generated_sows' = [generated_sows EXCEPT ![sow_id].sow_status = to]
    /\ result' = Returned("external_sow_transition", sow_id, None)
    /\ UNCHANGED <<reference, now, discovery_calls, generated_contracts,
                   payment_configurations, payment_transactions, project_kickoffs,
                   workflow_automation_log>>

PaymentsRecorded ==
    Cardinality({i \in 1..Len(payment_transactions) :
                    payment_transactions[i].transaction_type = "payment"})

PaymentReceived(config_id) ==
    /\ config_id \in 1..Len(payment_configurations)
    /\ ~InTransaction(DB)
    /\ PaymentsRecorded < MaxPayments
    /\ payment_transactions' = Append(payment_transactions,
           [config_id |-> config_id,
            transaction_type |-> "payment",
            amount |-> payment_configurations[config_id].payment_schedule[1].amount,
            invoice_due_date |-> now,
            milestone |-> payment_configurations[config_id].payment_schedule[1].milestone,
            transaction_status |-> "completed",
            durable |-> TRUE])
    /\ result' = Returned("payment_received", config_id, None)
    /\ UNCHANGED <<reference, now, discovery_calls, generated_sows, generated_contracts,
                   payment_configurations, project_kickoffs, workflow_automation_log>>

Tick ==
    /\ now + TickDays <= MaxNow
    /\ now' = now + TickDays
    /\ UNCHANGED <<reference, tables, result>>

(* The sales half of the pipeline: discovery call, proposal, approval, *)
(* contract generation.                                               *)
NextSales ==
    \/ \E call_data \in Intakes : ProcessDiscoveryCall(call_data)
    \/ \E call_id \in CallIds : GenerateSowFromDiscovery(call_id)
    \/ \E sow_id \in SowIds, template_id \in TemplateIds : GenerateContractFromSow(sow_id, template_id)
    \/ \E sow_id \in SowIds : ApiApproveSow(sow_id)
    \/ \E sow_id \in SowIds, to \in SOWStatus : ExternalSowTransition(sow_id, to)
    \/ Tick

(* The delivery half: signature, payment setup, payment, kickoff. *)
NextDelivery ==
    \/ \E contract_id \in ContractIds : SetupPaymentProcessing(contract_id)
    \/ \E contract_id \in ContractIds : TriggerProjectKickoff(contract_id)
    \/ \E contract_id \in ContractIds : ApiSendContract(contract_id)
    \/ \E contract_id \in ContractIds : ApiExecuteContract(contract_id)
    \/ \E config_id \in 1..Len(payment_configurations) : PaymentReceived(config_id)
    \/ Tick

Next == NextSales \/ NextDelivery

Spec == Init /\ [][Next]_vars

(* The sales half from a new database; the delivery half from a database *)
(* that holds a contract.                                                *)
InitSales == Connect(SalesReferenceData, {EmptyDatabase})
SpecSales == InitSales /\ [][NextSales]_vars

InitDelivery == Connect(DeliveryReferenceData, {SampleDatabase(s) : s \in ContractStatus})
SpecDelivery == InitDelivery /\ [][NextDelivery]_vars

(***************************************************************************)
(* The calculations on their own: each starts from one input and applies   *)
(* the function to it.  A database plays no part in them.                  *)
(***************************************************************************)
Scores == 0..100
SubScores == 0..10

(* Intakes on and around every threshold of the pain score. *)
WasteHours == {0, 5, 6, 10, 11, 20, 21, 25}
CostInefficiencies == {0, 10000, 10001, 25000, 25001, 50000, 50001, 100000, 100001, 120000}
TeamSizes == {0, 5, 6, 10, 11, 15}
PainIntakes ==
    {Intake(hours, cost, team, "not_disclosed", FALSE, "6_months", "1-10", "Retail") :
        hours \in WasteHours, cost \in CostInefficiencies, team \in TeamSizes}

Given(kind, input) ==
    /\ service_catalog = AllCategories
    /\ contract_templates = ContractTemplates
    /\ kickoff_templates = KickoffTemplates("seeded")
    /\ discovery_calls = <<>>
    /\ generated_sows = <<>>
    /\ generated_contracts = <<>>
    /\ payment_configurations = <<>>
    /\ payment_transactions = <<>>
    /\ project_kickoffs = <<>>
    /\ workflow_automation_log = <<>>
    /\ now = 0
    /\ result = Returned(kind, input, None)

Calculated(op, value) ==
    /\ result' = Returned(op, result.arg, value)
    /\ UNCHANGED <<reference, tables, now>>

(* Lines 291-298 applied to a score. *)
DetermineStatus ==
    /\ result.op = "score"
    /\ Calculated("qualification_status", qualification_status(result.arg))

(* Line 289 applied to four sub-scores. *)
ComputeOverallScore ==
    /\ result.op = "sub_scores"
    /\ Calculated("overall_score",
                  overall_score(result.arg[1], result.arg[2], result.arg[3], result.arg[4]))

(* _calculate_qualification_scores applied to an intake. *)
CalculateQualificationScores ==
    /\ result.op = "intake"
    /\ Calculated("calculate_qualification_scores",
                  calculate_qualification_scores(result.arg))

(* Intakes over every company size, industry and urgency the pricing      *)
(* tables name, and one of each that they do not.                          *)
CompanySizes == {"1-10", "11-50", "51-200", "201-500", "501-1000", "1000+", "unknown"}
Industries == {"Healthcare", "finance", "Government", "Retail"}
Urgencies == {"immediate", "1_month", "3_months", "6_months", "12_months", "unknown"}
PricingIntakes ==
    {Intake(0, 0, 0, "not_disclosed", FALSE, urgency, size, industry) :
        urgency \in Urgencies, size \in CompanySizes, industry \in Industries}

(* Selection lists with base costs of 0, 5000, 50000, 90000, 100000,       *)
(* 105000, 200000, 205000 and 250000 dollars.                              *)
Selected(category, qty) ==
    LET row == CatalogRow(category)
    IN  ServiceConfiguration(row, row.base_price, row.base_hours_required, qty)

Selections ==
    {<<>>,
     <<Selected("training", 1)>>,
     <<Selected("automation_development", 1)>>,
     <<Selected("automation_development", 1), Selected("process_optimization", 1),
       Selected("integration_setup", 1), Selected("ongoing_management", 1),
       Selected("training", 1)>>,
     <<Selected("automation_development", 2)>>,
     <<Selected("automation_development", 2), Selected("training", 1)>>,
     <<Selected("automation_development", 4)>>,
     <<Selected("automation_development", 4), Selected("training", 1)>>,
     <<Selected("automation_development", 5)>>}

(* Total costs in cents: the floor, both tier bounds and the cent on either *)
(* side of them, the thirty cents above 50000 dollars, and round totals.   *)
TotalCosts ==
    {2500000, 4999998, 4999999, 5000000, 8000000, 8400000, 10000000, 12345678,
     14999999, 15000000, 15000001, 20000000, 40000000} \cup (5000001..5000030)

(* _calculate_project_pricing applied to an intake and a selection list. *)
CalculateProjectPricing ==
    /\ result.op = "intake_and_services"
    /\ Calculated("calculate_project_pricing",
                  calculate_project_pricing(result.arg.call_data, result.arg.services))

(* _create_payment_schedule applied to a total cost. *)
CreatePaymentSchedule ==
    /\ result.op = "total_cost"
    /\ Calculated("create_payment_schedule", create_payment_schedule(result.arg))

(***************************************************************************)
(* Reporting (lines 1097-1220).  Both queries only read.  A value that SQL *)
(* returns is a number or NULL: SUM over no rows is NULL, COUNT is 0.      *)
(***************************************************************************)
SqlInt(n) == [null |-> FALSE, value |-> n]
SqlNull == [null |-> TRUE, value |-> 0]
SqlSum(rows, matching) == IF rows = {} THEN SqlNull ELSE SqlInt(Cardinality(matching))

(* Line 1177 calls DATEDIFF, which SQLite does not have and the engine     *)
(* does not register: preparing the statement raises OperationalError      *)
(* ("no such function: DATEDIFF") whatever the tables hold.                *)
sqlite_has_DATEDIFF == FALSE

(* (numerator / denominator * 100) if denominator > 0 else 0, lines        *)
(* 1194-1197: comparing None with 0, or dividing None, raises TypeError.   *)
(* A rate is held as the fraction it is the quotient of.                   *)
Rate(numerator, denominator) ==
    IF denominator.null THEN [raised |-> TRUE, top |-> 0, bottom |-> 1]
    ELSE IF denominator.value > 0
    THEN (IF numerator.null THEN [raised |-> TRUE, top |-> 0, bottom |-> 1]
          ELSE [raised |-> FALSE, top |-> 100 * numerator.value,
                bottom |-> denominator.value])
    ELSE [raised |-> FALSE, top |-> 0, bottom |-> 1]

conversion_rates(total_calls, qualified_calls, approved_sows, executed_contracts) ==
    [call_to_qualified |-> Rate(qualified_calls, total_calls),
     qualified_to_sow |-> Rate(approved_sows, qualified_calls),
     sow_to_contract |-> Rate(executed_contracts, approved_sows),
     overall_conversion |-> Rate(executed_contracts, total_calls)]

(* get_sales_process_analytics from the third query on: stats holds what   *)
(* the first two queries returned and what the third and fourth would.     *)
analytics_from_stats(stats) ==
    LET rates == conversion_rates(stats.total_calls, stats.qualified_count,
                                  stats.approved_count, stats.executed_count)
        failed == \E name \in DOMAIN rates : rates[name].raised
    IN  IF ~sqlite_has_DATEDIFF
        THEN [raised |-> "OperationalError", conversion_rates |-> <<>>,
              automation_efficiency |-> <<>>]
        ELSE IF failed
        THEN [raised |-> "TypeError", conversion_rates |-> <<>>,
              automation_efficiency |-> <<>>]
        ELSE [raised |-> "no", conversion_rates |-> rates,
              automation_efficiency |-> stats.automation_stats]

(* date_range is held as the rows its BETWEEN tests select: the discovery  *)
(* calls by call_date and the ledger entries by processing_start_time.     *)
get_sales_process_analytics(db, date_range) ==
    LET calls == date_range.calls \cap (1..Len(db.discovery_calls))
        sows == {s \in 1..Len(db.generated_sows) :
                    db.generated_sows[s].discovery_call_id \in calls}
        contracts == {c \in 1..Len(db.generated_contracts) :
                         db.generated_contracts[c].sow_id \in sows}
        entries == date_range.entries \cap (1..Len(db.workflow_automation_log))
        process_types == {db.workflow_automation_log[i].process_type : i \in entries}
    IN  analytics_from_stats(
            [total_calls |-> SqlInt(Cardinality(calls)),
             qualified_count |->
                 SqlSum(calls, {c \in calls :
                                   db.discovery_calls[c].qualified_status = "qualified"}),
             approved_count |->
                 SqlSum(sows, {s \in sows : db.generated_sows[s].sow_status = "approved"}),
             executed_count |->
                 SqlSum(contracts,
                        {c \in contracts :
                            db.generated_contracts[c].contract_status = "fully_executed"}),
             automation_stats |->
                 [p \in process_types |->
                     LET of_type == {i \in entries :
                                        db.workflow_automation_log[i].process_type = p}
                     IN  [total |-> Cardinality(of_type),
                          successful |->
                              Cardinality({i \in of_type :
                                  db.workflow_automation_log[i].automation_status
                                      = "completed"})]]])

(* A filter left out (None) is held as the empty string, which line 1105   *)
(* and 1109 treat the same way.                                            *)
NoFilter == ""

get_workflow_status(db, process_type, status) ==
    LET Matches(entry) ==
            /\ process_type # NoFilter => entry.process_type = process_type
            /\ status # NoFilter => entry.automation_status = status
        matching == SelectSeq(db.workflow_automation_log, Matches)
    IN  [i \in 1..Len(matching) |-> matching[Len(matching) + 1 - i]]

(* What the four counting queries return for a funnel of so many calls,   *)
(* qualified calls, proposals, approved proposals, contracts and executed  *)
(* contracts, the claim's 10, 4, 2, 1 among them.                          *)
Counts == {0, 1, 2, 4, 10}
Funnels ==
    {f \in [calls : Counts, qualified : Counts, sows : Counts, approved : Counts,
            contracts : Counts, executed : Counts] :
        /\ f.qualified <= f.calls
        /\ f.sows <= f.qualified
        /\ f.approved <= f.sows
        /\ f.contracts <= f.approved
        /\ f.executed <= f.contracts}

FunnelStats(f) ==
    [total_calls |-> SqlInt(f.calls),
     qualified_count |-> IF f.calls = 0 THEN SqlNull ELSE SqlInt(f.qualified),
     approved_count |-> IF f.sows = 0 THEN SqlNull ELSE SqlInt(f.approved),
     executed_count |-> IF f.contracts = 0 THEN SqlNull ELSE SqlInt(f.executed),
     automation_stats |-> <<>>]

(* get_sales_process_analytics applied to a funnel. *)
CalculateConversionRates ==
    /\ result.op = "funnel"
    /\ Calculated("get_sales_process_analytics",
                  analytics_from_stats(FunnelStats(result.arg)))

(* Integration texts: none, one that names no integration, one that names  *)
(* it alone, one with two "api" and one "system", and one of more than 100 *)
(* characters with three of each.                                          *)
IntegrationTexts ==
    {NoText,
     [length |-> 30, integration |-> 0, api |-> 2, system |-> 1],
     [length |-> 20, integration |-> 1, api |-> 0, system |-> 0],
     [length |-> 60, integration |-> 1, api |-> 2, system |-> 1],
     [length |-> 140, integration |-> 2, api |-> 3, system |-> 3]}

RecommenderIntakes ==
    {[Intake(hours, 0, team, "not_disclosed", FALSE, "6_months", size, "Retail")
         EXCEPT !.integration_requirements = text] :
        hours \in {10, 11}, team \in {10, 11, 21},
        size \in {"51-200", "201-500", "501-1000", "1000+"}, text \in IntegrationTexts}

(* _analyze_requirements_and_recommend_services applied to an intake and   *)
(* the active categories of a catalog.                                     *)
AnalyzeRequirementsAndRecommendServices ==
    /\ result.op = "intake_and_catalog"
    /\ Calculated("analyze_requirements_and_recommend_services",
                  analyze_requirements_and_recommend_services(result.arg.call_data,
                                                              result.arg.services))

(* Included-services lists as json.loads returns them: every list of up    *)
(* to three entries over the five categories, repeated categories too.     *)
MaxServices == 3
ServiceLists ==
    UNION {[1..n -> {[service_category |-> c] : c \in AllCategories}] : n \in 0..MaxServices}

(* _select_kickoff_template applied to an included-services list. *)
SelectKickoffTemplate ==
    /\ result.op = "services"
    /\ Calculated("select_kickoff_template", select_kickoff_template(result.arg))

InitCalculation ==
    \/ \E score \in Scores : Given("score", score)
    \/ \E p \in SubScores, b \in SubScores, t \in SubScores, x \in SubScores :
          Given("sub_scores", <<p, b, t, x>>)
    \/ \E call_data \in PainIntakes : Given("intake", call_data)
    \/ \E call_data \in PricingIntakes, services \in Selections :
          Given("intake_and_services", [call_data |-> call_data, services |-> services])
    \/ \E total_cost \in TotalCosts : Given("total_cost", total_cost)
    \/ \E funnel \in Funnels : Given("funnel", funnel)
    \/ \E services \in ServiceLists : Given("services", services)
    \/ \E call_data \in RecommenderIntakes, services \in SUBSET AllCategories :
          Given("intake_and_catalog", [call_data |-> call_data, services |-> services])

NextCalculation ==
    \/ DetermineStatus
    \/ ComputeOverallScore
    \/ CalculateQualificationScores
    \/ CalculateProjectPricing
    \/ CreatePaymentSchedule
    \/ CalculateConversionRates
    \/ AnalyzeRequirementsAndRecommendServices
    \/ SelectKickoffTemplate

SpecCalculation == InitCalculation /\ [][NextCalculation]_vars

(***************************************************************************)
(* Proposal generation on its own, from a new database, with room for a    *)
(* second proposal: generate_sow_from_discovery invoked directly, also for *)
(* an intake whose proposal process_discovery_call has already generated.  *)
(***************************************************************************)
MaxProposals == 2

GenerateSowAgain(call_id) ==
    /\ Len(generated_sows) < MaxProposals
    /\ LET r == generate_sow_from_discovery(DB, call_id, now)
       IN  /\ Store(r.db)
           /\ result' = Returned("generate_sow_from_discovery", call_id, r.ret)
    /\ UNCHANGED <<reference, now>>

NextProposals ==
    \/ \E call_data \in Intakes : ProcessDiscoveryCall(call_data)
    \/ \E call_id \in CallIds : GenerateSowAgain(call_id)
    \/ \E sow_id \in SowIds, to \in SOWStatus : ExternalSowTransition(sow_id, to)
    \/ Tick

SpecProposals == InitSales /\ [][NextProposals]_vars

(***************************************************************************)
(* The reporting queries on their own, over the empty database and over    *)
(* one that holds a call, its proposal and its contract.                   *)
(***************************************************************************)
DateRanges ==
    [calls : SUBSET (1..MaxCalls), entries : SUBSET (1..3)]

ProcessTypeFilters ==
    {NoFilter, "discovery_to_sow", "sow_to_contract", "contract_to_payment",
     "payment_to_kickoff"}
StatusFilters == {NoFilter, "completed", "failed"}

GetSalesProcessAnalytics(date_range) ==
    /\ result' = Returned("get_sales_process_analytics", date_range,
                          get_sales_process_analytics(DB, date_range))
    /\ UNCHANGED <<reference, tables, now>>

GetWorkflowStatus(process_type, status) ==
    /\ result' = Returned("get_workflow_status",
                          [process_type |-> process_type, status |-> status],
                          get_workflow_status(DB, process_type, status))
    /\ UNCHANGED <<reference, tables, now>>

NextReporting ==
    \/ \E date_range \in DateRanges : GetSalesProcessAnalytics(date_range)
    \/ \E process_type \in ProcessTypeFilters, status \in StatusFilters :
          GetWorkflowStatus(process_type, status)

InitReporting == Connect(DeliveryReferenceData, InitialDatabases)
SpecReporting == InitReporting /\ [][NextReporting]_vars

(***************************************************************************)
(* Properties.                                                             *)
(***************************************************************************)
ExistingSows == 1..Len(generated_sows)
ExistingContracts == 1..Len(generated_contracts)

(* C1 (as claimed): for a proposal in any status other than approved,      *)
(* generate_contract_from_sow fails with a StateConflictError outcome,     *)
(* persists no contract, appends no audit entry and leaves the proposal    *)
(* unchanged.                                                              *)
C1_RejectedWithStateConflictError ==
    [][\A sow_id \in ExistingSows :
          (generated_sows[sow_id].sow_status # "approved"
           /\ GenerateContractFromSow(sow_id, 1))
          => (result'.ret.kind = "StateConflictError" /\ UNCHANGED tables)]_vars

(* C1 (amended): for a proposal in any status other than approved,         *)
(* generate_contract_from_sow returns None, the value it returns for every *)
(* failure, persists no contract, appends no audit entry and leaves the    *)
(* proposal unchanged.                                                     *)
C1_RejectedWithNone ==
    [][\A sow_id \in ExistingSows :
          (generated_sows[sow_id].sow_status # "approved"
           /\ GenerateContractFromSow(sow_id, 1))
          => (result'.ret = None /\ UNCHANGED tables)]_vars

(* C1 witness: contract generation was requested for a proposal that is in *)
(* review and returned None.                                               *)
C1_Witness ==
    /\ result.op = "generate_contract_from_sow"
    /\ result.arg \in ExistingSows
    /\ generated_sows[result.arg].sow_status = "review"
    /\ result.ret = None

(* C2 (as claimed): an approval request that finds the proposal already    *)
(* approved fails with StateConflictError instead of applying the          *)
(* transition again, and no proposal ever has more than one contract.      *)
C2_ApprovalAppliedOnce ==
    [][/\ \A sow_id \in ExistingSows :
            (generated_sows[sow_id].sow_status = "approved" /\ ApiApproveSow(sow_id))
            => result'.ret.kind = "StateConflictError"
       /\ \A sow_id \in 1..Len(generated_sows') :
            Cardinality({c \in 1..Len(generated_contracts') :
                            generated_contracts'[c].sow_id = sow_id}) <= 1]_vars

(* C3 (as claimed): payment setup and kickoff are all-or-nothing: an        *)
(* invocation that fails leaves every table as it found it, with no row of *)
(* its own waiting in an open transaction, and no later step makes such a  *)
(* row durable.                                                            *)
C3_AllOrNothing ==
    [][/\ \A contract_id \in ContractIds :
            ((SetupPaymentProcessing(contract_id) \/ TriggerProjectKickoff(contract_id))
             /\ result'.ret = None)
            => (UNCHANGED tables /\ ~InTransaction(DB'))
       /\ \A k \in 1..Len(project_kickoffs) :
            ~project_kickoffs[k].durable => ~project_kickoffs'[k].durable]_vars

(* The ledger entries with a given action, source id and target id. *)
LedgerEntries(action, source_id, target_id) ==
    {i \in 1..Len(workflow_automation_log) :
        /\ workflow_automation_log[i].automation_action = action
        /\ workflow_automation_log[i].source_record_id = source_id
        /\ workflow_automation_log[i].target_record_id = target_id}

(* C4 (as claimed): every persisted proposal, contract, payment             *)
(* configuration and kickoff record has exactly one ledger entry with its  *)
(* action (sow_generated, contract_generated, payment_setup,               *)
(* kickoff_triggered), its id as target and the id of the record it was    *)
(* generated from as source.                                               *)
C4_OneLedgerEntryPerRecord ==
    /\ \A s \in 1..Len(generated_sows) :
          Cardinality(LedgerEntries("sow_generated",
                                    generated_sows[s].discovery_call_id, s)) = 1
    /\ \A c \in 1..Len(generated_contracts) :
          Cardinality(LedgerEntries("contract_generated",
                                    generated_contracts[c].sow_id, c)) = 1
    /\ \A p \in 1..Len(payment_configurations) :
          payment_configurations[p].durable
          => Cardinality(LedgerEntries("payment_setup",
                                       payment_configurations[p].contract_id, p)) = 1
    /\ \A k \in 1..Len(project_kickoffs) :
          project_kickoffs[k].durable
          => Cardinality(LedgerEntries("kickoff_triggered",
                                       project_kickoffs[k].contract_id, k)) = 1

(* C5: the ledger is append-only: in every step the ledger before it is a  *)
(* prefix of the ledger after it, and every entry has status "completed"   *)
(* and actor "system".                                                     *)
C5_LedgerAppendOnly ==
    [][/\ Len(workflow_automation_log) <= Len(workflow_automation_log')
       /\ SubSeq(workflow_automation_log', 1, Len(workflow_automation_log))
              = workflow_automation_log
       /\ \A i \in 1..Len(workflow_automation_log') :
            /\ workflow_automation_log'[i].automation_status = "completed"
            /\ workflow_automation_log'[i].triggered_by_user = "system"]_vars

(* C5 witness: two payment setups and a kickoff of the same contract have  *)
(* been written to the ledger after the entries the database started with. *)
C5_Witness ==
    /\ Cardinality({i \in 1..Len(workflow_automation_log) :
                       workflow_automation_log[i].automation_action = "payment_setup"}) = 2
    /\ \E i \in 1..Len(workflow_automation_log) :
          workflow_automation_log[i].automation_action = "kickoff_triggered"

CompletedPayments(contract_id) ==
    {i \in 1..Len(payment_transactions) :
        /\ payment_transactions[i].transaction_type = "payment"
        /\ payment_transactions[i].transaction_status = "completed"
        /\ payment_transactions[i].config_id \in 1..Len(payment_configurations)
        /\ payment_configurations[payment_transactions[i].config_id].contract_id
               = contract_id}

(* What trigger_project_kickoff returns for a contract that does not exist. *)
ContractNotFound ==
    trigger_project_kickoff(DB, Len(generated_contracts) + 1, now).ret

(* C7 (as claimed): trigger_project_kickoff on an existing contract with no *)
(* completed payment returns an outcome that differs from the one for a    *)
(* contract that is not found, creates no kickoff record and appends no    *)
(* audit entry, so that it can be invoked again with the same result.      *)
C7_DeferredDistinctFromFailure ==
    [][\A contract_id \in ExistingContracts :
          (CompletedPayments(contract_id) = {} /\ TriggerProjectKickoff(contract_id))
          => (result'.ret # ContractNotFound /\ UNCHANGED tables)]_vars

(* C7 (amended): trigger_project_kickoff on an existing contract with no   *)
(* completed payment returns None, which is also what it returns for a     *)
(* contract that is not found; it creates no kickoff record and appends no *)
(* audit entry, so that it can be invoked again with the same result.      *)
C7_DeferredReturnsNone ==
    [][\A contract_id \in ExistingContracts :
          (CompletedPayments(contract_id) = {} /\ TriggerProjectKickoff(contract_id))
          => (result'.ret = None /\ ContractNotFound = None /\ UNCHANGED tables)]_vars

(* C7 witness: kickoff was requested for a contract whose first invoice is *)
(* issued and unpaid, and returned None.                                   *)
C7_Witness ==
    /\ result.op = "trigger_project_kickoff"
    /\ result.arg \in ExistingContracts
    /\ CompletedPayments(result.arg) = {}
    /\ \E i \in 1..Len(payment_transactions) :
          payment_transactions[i].transaction_type = "invoice"
    /\ result.ret = None

(* The kickoff template that trigger_project_kickoff selects for a contract. *)
SelectedTemplate(contract_id) ==
    select_kickoff_template(
        generated_sows[generated_contracts[contract_id].sow_id].included_services)

(* The ledger after one more entry with the given action, source and target. *)
LedgerExtendedBy(action, source_id, target_id) ==
    /\ Len(workflow_automation_log') = Len(workflow_automation_log) + 1
    /\ SubSeq(workflow_automation_log', 1, Len(workflow_automation_log))
           = workflow_automation_log
    /\ LET entry == workflow_automation_log'[Len(workflow_automation_log')]
       IN  /\ entry.automation_action = action
           /\ entry.source_record_id = source_id
           /\ entry.target_record_id = target_id

C9_RejectedWithStateConflictError ==
    [][\A contract_id \in ExistingContracts :
          SetupPaymentProcessing(contract_id)
          => IF generated_contracts[contract_id].contract_status = "fully_executed"
             THEN TRUE
             ELSE result'.ret.kind = "StateConflictError" /\ UNCHANGED tables]_vars

(* C9 (amended): setup_payment_processing returns a configuration id only  *)
(* for a fully executed contract; for a contract in any other status it    *)
(* returns None and writes no configuration, invoice or audit entry.       *)
C9_RejectedWithNone ==
    [][\A contract_id \in ContractIds :
          SetupPaymentProcessing(contract_id)
          => IF /\ contract_id \in ExistingContracts
                /\ generated_contracts[contract_id].contract_status = "fully_executed"
             THEN TRUE
             ELSE result'.ret = None /\ UNCHANGED tables]_vars

(* C9 witness: payment setup was requested for a cancelled contract and    *)
(* returned None.                                                          *)
C9_Witness ==
    /\ result.op = "setup_payment_processing"
    /\ result.arg \in ExistingContracts
    /\ generated_contracts[result.arg].contract_status = "cancelled"
    /\ result.ret = None

(* The amount of the "Project Start" milestone in a stored schedule. *)
ProjectStartAmount(payment_schedule) ==
    payment_schedule[CHOOSE i \in 1..Len(payment_schedule) :
                        payment_schedule[i].milestone = "Project Start"].amount

(* C10: a step that creates a payment configuration creates exactly one    *)
(* payment transaction with it: an invoice, pending, for the "Project      *)
(* Start" milestone, of that milestone's amount in the stored schedule,    *)
(* due seven days after now.                                               *)
C10_OneProjectStartInvoice ==
    [][Len(payment_configurations') = Len(payment_configurations) + 1
       => LET config_id == Len(payment_configurations')
              contract_id == payment_configurations'[config_id].contract_id
              schedule == generated_sows[generated_contracts[contract_id].sow_id]
                              .payment_schedule
          IN  /\ Len(payment_transactions') = Len(payment_transactions) + 1
              /\ SubSeq(payment_transactions', 1, Len(payment_transactions))
                     = payment_transactions
              /\ LET invoice == payment_transactions'[Len(payment_transactions')]
                 IN  /\ invoice.config_id = config_id
                     /\ invoice.transaction_type = "invoice"
                     /\ invoice.transaction_status = "pending"
                     /\ invoice.milestone = "Project Start"
                     /\ invoice.amount = ProjectStartAmount(schedule)
                     /\ invoice.invoice_due_date = now + InvoiceDueDays]_vars

(* C10 witness: setup_payment_processing returned a configuration whose    *)
(* schedule has three milestones and whose only transaction is the         *)
(* "Project Start" invoice.                                                *)
C10_Witness ==
    /\ result.op = "setup_payment_processing"
    /\ result.ret.kind = "id"
    /\ result.ret.id \in 1..Len(payment_configurations)
    /\ Len(payment_configurations[result.ret.id].payment_schedule) = 3
    /\ Cardinality({i \in 1..Len(payment_transactions) :
                       payment_transactions[i].config_id = result.ret.id}) = 1
    /\ \E i \in 1..Len(payment_transactions) :
          /\ payment_transactions[i].config_id = result.ret.id
          /\ payment_transactions[i].milestone = "Project Start"

(* C11 (as claimed): a proposal becomes approved only from sent, and an    *)
(* approval request on a proposal that is draft, review, rejected, expired *)
(* or already approved is rejected with StateConflictError and leaves the  *)
(* status as it was.                                                       *)
C11_ApprovedOnlyFromSent ==
    [][\A sow_id \in ExistingSows :
          /\ (generated_sows[sow_id].sow_status # "approved"
              /\ generated_sows'[sow_id].sow_status = "approved")
             => generated_sows[sow_id].sow_status = "sent"
          /\ (generated_sows[sow_id].sow_status # "sent" /\ ApiApproveSow(sow_id))
             => /\ result'.ret.kind = "StateConflictError"
                /\ generated_sows'[sow_id].sow_status
                       = generated_sows[sow_id].sow_status]_vars

(* C12 (as claimed): generate_contract_from_sow on an approved proposal    *)
(* with an existing template returns a new contract id, persists one       *)
(* contract numbered after the month and the proposal id, starting in 14   *)
(* days, ending timeline_weeks weeks later, effective now, expiring in 365 *)
(* days, and appends one contract_generated entry.                         *)
C12_ContractGenerated ==
    [][\A sow_id \in ExistingSows, template_id \in DOMAIN contract_templates :
          (generated_sows[sow_id].sow_status = "approved"
           /\ GenerateContractFromSow(sow_id, template_id))
          => LET contract_id == Len(generated_contracts) + 1
             IN  /\ result'.ret = RowId(contract_id)
                 /\ Len(generated_contracts') = contract_id
                 /\ LET contract == generated_contracts'[contract_id]
                    IN  /\ contract.sow_id = sow_id
                        /\ contract.contract_number = [yyyymm_of |-> now, number |-> sow_id]
                        /\ contract.project_start_date = now + 14
                        /\ contract.project_end_date
                               = now + 14 + 7 * generated_sows[sow_id].timeline_weeks
                        /\ contract.contract_effective_date = now
                        /\ contract.contract_expiration_date = now + 365
                 /\ LedgerExtendedBy("contract_generated", sow_id, contract_id)]_vars

(* C13 (as claimed): rendering an approved proposal with a template yields *)
(* text, the same text each time for the same proposal, template and time, *)
(* and the contract that generate_contract_from_sow persists stores that   *)
(* text with the digest of it.                                             *)
C13_DigestOfRenderedText ==
    [][\A sow_id \in ExistingSows, template_id \in DOMAIN contract_templates :
          (generated_sows[sow_id].sow_status = "approved"
           /\ GenerateContractFromSow(sow_id, template_id))
          => LET rendering == generate_contract_content(
                                  sow_id, generated_sows[sow_id],
                                  contract_templates[template_id], now)
                 contract_id == Len(generated_contracts) + 1
             IN  /\ ~rendering.raised
                 /\ Len(generated_contracts') = contract_id
                 /\ generated_contracts'[contract_id].contract_content = rendering.content
                 /\ generated_contracts'[contract_id].contract_hash
                        = sha256(generated_contracts'[contract_id].contract_content)]_vars

(* The positions of a template's text that hold an unmatched placeholder. *)
Unmatched(template) ==
    {i \in 1..Len(template.template_content) :
        template.template_content[i] \in UnmatchedTokens}

(* C14 (as claimed): contract generation from a template that holds a      *)
(* placeholder outside the substitution set aborts with ComputationError   *)
(* and persists no contract, so no contract holds an unreplaced            *)
(* placeholder.                                                            *)
C14_UnmatchedPlaceholderAborts ==
    [][/\ \A sow_id \in ExistingSows, template_id \in DOMAIN contract_templates :
            (/\ generated_sows[sow_id].sow_status = "approved"
             /\ Unmatched(contract_templates[template_id]) # {}
             /\ GenerateContractFromSow(sow_id, template_id))
            => (result'.ret.kind = "ComputationError" /\ UNCHANGED generated_contracts)
       /\ \A c \in 1..Len(generated_contracts') :
            \A i \in 1..Len(generated_contracts'[c].contract_content) :
               generated_contracts'[c].contract_content[i].text
                   \in (variables \cup UnmatchedTokens)
               => generated_contracts'[c].contract_content[i].replaced]_vars

(* The statuses from the least to the most advanced. *)
StatusRank(status) ==
    CASE status = "disqualified" -> 0
      [] status = "pending_review" -> 1
      [] status = "nurture" -> 2
      [] status = "qualified" -> 3

(* C15: for every score in 0..100 the status is qualified iff the score is *)
(* at least 70, nurture iff it is 50..69, pending_review iff it is 30..49  *)
(* and disqualified iff it is below 30, and no lower score has a more      *)
(* advanced status.                                                        *)
C15_StatusByThreshold ==
    result.op = "qualification_status"
    => LET score == result.arg
           status == result.ret
       IN  /\ status = "qualified" <=> score >= 70
           /\ status = "nurture" <=> (50 <= score /\ score <= 69)
           /\ status = "pending_review" <=> (30 <= score /\ score <= 49)
           /\ status = "disqualified" <=> score < 30
           /\ \A below \in 0..score :
                 StatusRank(qualification_status(below)) <= StatusRank(status)

(* C15 witness: the status of score 69 was determined, and it is nurture. *)
C15_Witness ==
    /\ result.op = "qualification_status"
    /\ result.arg = 69
    /\ result.ret = "nurture"

(* C16 (as claimed): for every four sub-scores in 0..10 the overall score  *)
(* is exactly 3*pain + 3*budget + 2*timeline + 2*technical and lies in     *)
(* 0..100.                                                                 *)
C16_OverallScoreExact ==
    result.op = "overall_score"
    => /\ result.ret = 3 * result.arg[1] + 3 * result.arg[2]
                       + 2 * result.arg[3] + 2 * result.arg[4]
       /\ result.ret \in 0..100

(* C17: the pain score of every intake is min(10, h + c + t) with h = 4,   *)
(* 2, 1, 0 for weekly hours above 20, 10, 5, otherwise; c = 4, 3, 2, 1, 0  *)
(* for cost above 100000, 50000, 25000, 10000, otherwise; t = 2, 1, 0 for  *)
(* team size above 10, 5, otherwise.                                       *)
C17_PainScore ==
    result.op = "calculate_qualification_scores"
    => LET hours == result.arg.time_waste_hours_weekly
           cost == result.arg.estimated_cost_inefficiency
           team == result.arg.team_size_affected
           h == CASE hours > 20 -> 4 [] hours > 10 /\ hours <= 20 -> 2
                  [] hours > 5 /\ hours <= 10 -> 1 [] OTHER -> 0
           c == CASE cost > 100000 -> 4 [] cost > 50000 /\ cost <= 100000 -> 3
                  [] cost > 25000 /\ cost <= 50000 -> 2
                  [] cost > 10000 /\ cost <= 25000 -> 1 [] OTHER -> 0
           t == CASE team > 10 -> 2 [] team > 5 /\ team <= 10 -> 1 [] OTHER -> 0
       IN  result.ret.pain_level = Min(10, h + c + t)

(* C17 witness: the intake with 25 hours, 120000 cost and a team of 15 was *)
(* scored, and its pain score is 10.                                       *)
C17_Witness ==
    /\ result.op = "calculate_qualification_scores"
    /\ result.arg.time_waste_hours_weekly = 25
    /\ result.arg.estimated_cost_inefficiency = 120000
    /\ result.arg.team_size_affected = 15
    /\ result.ret.pain_level = 10

(* base + additional + complexity adjustment - discounts as C18 words it,  *)
(* in cents.  A percent of the base is taken of its whole dollars: every   *)
(* selection list has a base cost in whole dollars.                        *)
Unfloored(call_data, services) ==
    LET base == SumOver(services, "price")
        rate == size_adjustments(call_data.company_size)
                + industry_premiums(lower(call_data.industry))
                + urgency_premiums(call_data.timeline_urgency)
        volume == IF base > 20000000 THEN 10 ELSE IF base > 10000000 THEN 5 ELSE 0
    IN  base + 0 + (base \div 100) * rate - (base \div 100) * (volume + 5)

Tiers(schedule) ==
    [i \in 1..Len(schedule) |-> <<schedule[i].milestone, schedule[i].percentage>>]

(* C19: a total below 50000 gives two milestones (Project Start, Project   *)
(* Completion, 50/50), a total from 50000 to below 150000 gives three      *)
(* (30/40/30) and a total of 150000 or more gives four (25 each).          *)
C19_TierByTotal ==
    result.op = "create_payment_schedule"
    => LET total_cost == result.arg
           tiers == Tiers(result.ret)
       IN  /\ total_cost < 5000000
              => tiers = <<<<"Project Start", 50>>, <<"Project Completion", 50>>>>
           /\ (5000000 <= total_cost /\ total_cost < 15000000)
              => (/\ Len(tiers) = 3
                  /\ [i \in 1..3 |-> tiers[i][2]] = <<30, 40, 30>>
                  /\ tiers[1][1] = "Project Start"
                  /\ tiers[3][1] = "Project Completion")
           /\ total_cost >= 15000000
              => (/\ Len(tiers) = 4
                  /\ [i \in 1..4 |-> tiers[i][2]] = <<25, 25, 25, 25>>
                  /\ tiers[1][1] = "Project Start"
                  /\ tiers[4][1] = "Project Completion")

(* C19 witness: the schedule for exactly 50000.00 was created and has      *)
(* three milestones.                                                       *)
C19_Witness ==
    /\ result.op = "create_payment_schedule"
    /\ result.arg = 5000000
    /\ Len(result.ret) = 3

RECURSIVE SumOfPercentages(_)
SumOfPercentages(schedule) ==
    IF schedule = <<>> THEN 0
    ELSE Head(schedule).percentage + SumOfPercentages(Tail(schedule))

(* C20 (as claimed): for every total cost the percentages of the schedule  *)
(* sum to 100, each amount is its percentage of the total, and the amounts *)
(* sum to the total.                                                       *)
C20_AmountsSumToTotal ==
    result.op = "create_payment_schedule"
    => LET total_cost == result.arg
           schedule == result.ret
       IN  /\ SumOfPercentages(schedule) = 100
           /\ \A i \in 1..Len(schedule) :
                 5 * schedule[i].amount = total_cost * schedule[i].percentage
           /\ Binary64SumOfAmounts(schedule, total_cost) = total_cost * AmountsPerCent

(* C21 (as claimed): get_sales_process_analytics returns the four          *)
(* conversion rates: call_to_qualified = 100 * qualified / calls,          *)
(* qualified_to_sow = 100 * approved / qualified, sow_to_contract =        *)
(* 100 * executed / approved and overall_conversion = 100 * executed /     *)
(* calls, each 0 when its denominator is 0.                                *)
IsRate(rate, numerator, denominator) ==
    /\ ~rate.raised
    /\ IF denominator = 0
       THEN rate.top = 0
       ELSE rate.top * denominator = 100 * numerator * rate.bottom

C21_ConversionRates ==
    result.op = "get_sales_process_analytics" /\ result.arg \in Funnels
    => /\ result.ret.raised = "no"
       /\ LET f == result.arg
              rates == result.ret.conversion_rates
          IN  /\ IsRate(rates.call_to_qualified, f.qualified, f.calls)
              /\ IsRate(rates.qualified_to_sow, f.approved, f.qualified)
              /\ IsRate(rates.sow_to_contract, f.executed, f.approved)
              /\ IsRate(rates.overall_conversion, f.executed, f.calls)

(* C22 (as claimed): get_sales_process_analytics over a date range that    *)
(* holds no call and no ledger entry returns normally with the four rates  *)
(* 0 and an empty per-process map, and get_workflow_status with filters    *)
(* that match no ledger entry returns the empty list.                      *)
MatchingEntries(filters) ==
    {i \in 1..Len(workflow_automation_log) :
        /\ filters.process_type # NoFilter
           => workflow_automation_log[i].process_type = filters.process_type
        /\ filters.status # NoFilter
           => workflow_automation_log[i].automation_status = filters.status}

C22_EmptyResultsReturnNormally ==
    /\ (/\ result.op = "get_sales_process_analytics"
        /\ result.arg \in DateRanges
        /\ result.arg.calls \cap (1..Len(discovery_calls)) = {}
        /\ result.arg.entries \cap (1..Len(workflow_automation_log)) = {})
       => /\ result.ret.raised = "no"
          /\ \A name \in DOMAIN result.ret.conversion_rates :
                result.ret.conversion_rates[name].top = 0
          /\ DOMAIN result.ret.automation_efficiency = {}
    /\ (result.op = "get_workflow_status" /\ MatchingEntries(result.arg) = {})
       => result.ret = <<>>

(* C23 (as claimed): every kickoff record belongs to a contract that is     *)
(* fully executed and has at least one completed payment-type transaction. *)
C23_KickoffOnlyForExecutedAndPaid ==
    \A k \in 1..Len(project_kickoffs) :
        LET contract_id == project_kickoffs[k].contract_id
        IN  /\ contract_id \in ExistingContracts
            /\ generated_contracts[contract_id].contract_status = "fully_executed"
            /\ CompletedPayments(contract_id) # {}

(* C24 (as claimed): each intake has at most one proposal; generating a    *)
(* proposal again for the same intake does not create a second one.        *)
ProposalsOf(call_id) ==
    {s \in ExistingSows : generated_sows[s].discovery_call_id = call_id}

C24_AtMostOneProposalPerIntake ==
    \A call_id \in 1..Len(discovery_calls) : Cardinality(ProposalsOf(call_id)) <= 1

(* C27 (as claimed): every persisted proposal belongs to an intake whose   *)
(* status is qualified; generate_sow_from_discovery invoked directly for   *)
(* an intake in nurture, pending review or disqualified creates none.      *)
C27_ProposalOnlyForQualified ==
    \A s \in ExistingSows :
        /\ generated_sows[s].discovery_call_id \in 1..Len(discovery_calls)
        /\ discovery_calls[generated_sows[s].discovery_call_id].qualified_status
               = "qualified"

(* C25: for every intake and active catalog the recommended list holds, in *)
(* this order, automation development (always), process optimization iff   *)
(* weekly waste hours > 10, integration setup iff the integration text     *)
(* contains "integration", ongoing management iff the company size is      *)
(* 201-500, 501-1000 or 1000+, and training iff the team size affected is  *)
(* over 10, each only when the catalog has the category; the quantity of   *)
(* integration setup is min(occurrences of "api" + occurrences of "system" *)
(* + 1, 5), which lies in 1..5, and every other quantity is 1.             *)
RuleOrder ==
    <<"automation_development", "process_optimization", "integration_setup",
      "ongoing_management", "training">>

RuleMatches(category, call_data) ==
    CASE category = "automation_development" -> TRUE
      [] category = "process_optimization" -> call_data.time_waste_hours_weekly > 10
      [] category = "integration_setup" -> call_data.integration_requirements.integration > 0
      [] category = "ongoing_management" ->
            call_data.company_size \in {"201-500", "501-1000", "1000+"}
      [] category = "training" -> call_data.team_size_affected > 10

EstimatedIntegrations(call_data) ==
    call_data.integration_requirements.api + call_data.integration_requirements.system + 1

C25_RecommendedSelections ==
    result.op = "analyze_requirements_and_recommend_services"
    => LET call_data == result.arg.call_data
           Included(category) ==
               category \in result.arg.services /\ RuleMatches(category, call_data)
           expected == SelectSeq(RuleOrder, Included)
       IN  /\ Len(result.ret) = Len(expected)
           /\ \A i \in 1..Len(result.ret) :
                 /\ result.ret[i].service_category = expected[i]
                 /\ result.ret[i].quantity \in 1..5
                 /\ result.ret[i].quantity =
                        IF expected[i] # "integration_setup" THEN 1
                        ELSE IF EstimatedIntegrations(call_data) < 5
                        THEN EstimatedIntegrations(call_data)
                        ELSE 5

(* C25 witness: an intake whose text names seven integrations and whose    *)
(* team is over 10 was analysed against a catalog without training: the    *)
(* list has integration setup in quantity 5 and no training entry.         *)
C25_Witness ==
    /\ result.op = "analyze_requirements_and_recommend_services"
    /\ EstimatedIntegrations(result.arg.call_data) = 7
    /\ result.arg.call_data.team_size_affected > 10
    /\ "training" \notin result.arg.services
    /\ \E i \in 1..Len(result.ret) :
          /\ result.ret[i].service_category = "integration_setup"
          /\ result.ret[i].quantity = 5
    /\ \A i \in 1..Len(result.ret) : result.ret[i].service_category # "training"

(* C26 (as claimed): for every included-services list the kickoff template *)
(* chosen is the complex one (1) iff the list contains automation          *)
(* development and has more than 2 distinct service categories, otherwise  *)
(* the standard one (2) iff it contains automation development, otherwise  *)
(* the basic one (3).                                                      *)
DistinctCategories(services) ==
    {services[i].service_category : i \in 1..Len(services)}

ConfigurationsOf(contract_id) ==
    {c \in 1..Len(payment_configurations) :
        payment_configurations[c].contract_id = contract_id}

ProjectStartInvoicesOf(contract_id) ==
    {i \in 1..Len(payment_transactions) :
        /\ payment_transactions[i].transaction_type = "invoice"
        /\ payment_transactions[i].milestone = "Project Start"
        /\ payment_transactions[i].config_id \in ConfigurationsOf(contract_id)}

KickoffsOf(contract_id) ==
    {k \in 1..Len(project_kickoffs) : project_kickoffs[k].contract_id = contract_id}

C28_AtMostOnePerContract ==
    \A contract_id \in ExistingContracts :
        /\ Cardinality(ConfigurationsOf(contract_id)) <= 1
        /\ Cardinality(ProjectStartInvoicesOf(contract_id)) <= 1
        /\ Cardinality(KickoffsOf(contract_id)) <= 1

(* C29 (as claimed): once the expiry time of a proposal (its generation    *)
(* time plus 30 days) has passed, no step approves it and no step creates  *)
(* a contract from it.                                                     *)
C29_ExpiredProposalIsDead ==
    [][\A sow_id \in ExistingSows :
          now > generated_sows[sow_id].expires_at
          => /\ generated_sows[sow_id].sow_status # "approved"
                => generated_sows'[sow_id].sow_status # "approved"
             /\ \A c \in (Len(generated_contracts) + 1)..Len(generated_contracts') :
                   generated_contracts'[c].sow_id # sow_id]_vars

(* C30: the ledger records the pipeline in stage order: every              *)
(* sow_generated entry is preceded by the discovery_call_processed entry   *)
(* of its intake, every contract_generated entry with source proposal p by *)
(* the sow_generated entry with target p, every payment_setup entry with   *)
(* source contract c by the contract_generated entry with target c, and    *)
(* every kickoff_triggered entry with source contract c by a payment_setup *)
(* entry with source c.                                                    *)
PrecededBy(i, action, field, id) ==
    \E j \in 1..(i - 1) :
        /\ workflow_automation_log[j].automation_action = action
        /\ workflow_automation_log[j][field] = id

====
